---- MODULE Spec2Model ----
(***************************************************************************)
(* Tournament bracket generator (src/utils/tournamentBracketGenerator.ts,  *)
(* kept in src/src/utils/securityMonitor.ts lines 348-535) and its caller, *)
(* the tournament creation workflow of CreateTournamentModal.              *)
(*                                                                         *)
(* generateFixturesBracket and generateGroupStage are pure functions: they *)
(* are operators here, computed loop by loop as the code computes them.    *)
(* The state machine is the caller: it holds a participant list, calls one *)
(* of the two generators and stores what it returns.                       *)
(***************************************************************************)
EXTENDS Integers, Sequences, FiniteSets, TLC

VARIABLES participants, bracket, groups, step, format

\* RateLimiter (src/utils/validation.ts): the clock Date.now(), the static
\* maps attempts and blockedIPs, the value the last call returned, and per
\* key the history of its current window (how many isAllowed calls, how
\* many of them allowed, with which maxAttempts).
VARIABLES now, attempts, blockedIPs, rlReturn, rlWindow

\* useAuthProvider (src/hooks/useAuth.ts): its React state user, loading and
\* sessionId; the static maps SessionSecurity.sessions and
\* CSRFProtection.tokens with the csrf_token entry of sessionStorage; where
\* initializeSecurity stands, whether the auth state listener is
\* registered, how many session ids were generated, and the signOut call
\* in flight with the promise it returned.
VARIABLES user, loading, sessionId, sessions, tokens, csrfStored,
          authPc, subscribed, created, signOutCall
\* Whether the component that uses the hook is mounted, the last event the
\* auth state listener received, and the value the last SessionSecurity
\* call returned.
VARIABLES mounted, lastEvent, ssReturn

bracketVars == <<participants, bracket, groups, step, format>>
rlVars == <<now, attempts, blockedIPs, rlReturn, rlWindow>>
authVars == <<user, loading, sessionId, sessions, tokens, csrfStored,
              authPc, subscribed, created, signOutCall,
              mounted, lastEvent, ssReturn>>
\* useTournamentStore (src/stores/tournamentStore.ts): the zustand state,
\* the requests in flight or waiting for their retry timer, and the number
\* of tournaments the backend created.
VARIABLES tournamentStore, requests, createdCount
storeVars == <<tournamentStore, requests, createdCount>>

\* useNotificationStore (src/stores/notificationStore.ts): the zustand
\* state and the fetchNotifications calls in flight.
VARIABLES notificationStore, notifPending
notifVars == <<notificationStore, notifPending>>

\* SecurityMonitor (src/utils/securityMonitor.ts): the static events array
\* and metrics, the number of events logged so far and the number of them
\* logged one by one.
VARIABLES events, metrics, logged, singles
monitorVars == <<events, metrics, logged, singles>>

\* matchService.createMatches (src/services/database.ts): the rows of the
\* matches table and how the call ended.
VARIABLES matchRows, createMatchesCall
persistVars == <<matchRows, createMatchesCall>>

restVars == <<storeVars, notifVars, monitorVars, persistVars>>
vars == <<bracketVars, rlVars, authVars, restVars>>

(***************************************************************************)
(* Bounds of the model.                                                    *)
(***************************************************************************)
\* Lists of up to MaxFree participants carry any seeds of 1..MaxSeed
\* (duplicates and gaps included, any order).
MaxFree == 4
MaxSeed == 5
\* Lists of up to MaxDense participants carry the dense seeds 1..N, in
\* every rotation of the ascending and of the descending order.
MaxDense == 17
\* The clock runs from 0 to MaxTime seconds; maxAttempts ranges over
\* 1..MaxAttemptsArg.
MaxTime == 5
MaxAttemptsArg == 2
\* At most MaxSessions session ids are generated.
MaxSessions == 2
\* tournamentService.getAll returns no tournament, one, or MaxFetched of
\* them (more than one page); tournamentService.create succeeds at most
\* MaxCreated times.
MaxFetched == 13
MaxCreated == 1
\* The notification list holds at most MaxNotifications entries.
MaxNotifications == 3
\* At most MaxSingles events are logged one by one, next to one burst of
\* logEvent calls; the clock of SecurityMonitor runs to MaxMonitorTime
\* seconds.
MaxSingles == 4
MaxMonitorTime == 2
\* The clock of SessionSecurity runs to MaxQuarters quarters of an hour.
MaxQuarters == 34

(***************************************************************************)
(* Data model: interfaces Participant, Match, Group.                       *)
(***************************************************************************)
\* An optional field that is absent (undefined in the source).
Undefined == [id |-> 0, name |-> 0, seed |-> 0]

\* Participant { id, name, seed }
Participant(id, name, seed) == [id |-> id, name |-> name, seed |-> seed]

\* Match { id, participant1?, participant2?, winner?, round, matchNumber }
Match(id, p1, p2, w, round, matchNumber) ==
  [id |-> id, participant1 |-> p1, participant2 |-> p2, winner |-> w,
   round |-> round, matchNumber |-> matchNumber]

\* Group { name, participants, matches }
Group(name, ps, ms) == [name |-> name, participants |-> ps, matches |-> ms]

\* Template strings of the match ids: `${prefix}-${round}-${n}`,
\* `match-1-bye-${player.id}` and `group-${name}-match-${n}`, kept as the
\* tuple <<prefix, word, number, number>> of their parts (a part that the
\* template does not have is "" or 0).
MatchId(prefix, round, n) == <<prefix, "", round, n>>
ByeMatchId(playerId) == <<"match", "bye", 1, playerId>>
GroupMatchId(name, n) == <<"group", name, 0, n>>

(***************************************************************************)
(* Arithmetic helpers of the source.                                       *)
(***************************************************************************)
Min(a, b) == IF a < b THEN a ELSE b
Max(a, b) == IF a > b THEN a ELSE b

\* Mutant: Math.floor for Math.ceil.
CeilHalf_Floor(n) == n \div 2

\* Math.ceil(n / 2) and Math.floor(n / d) on non-negative integers.
CeilHalf(n) == (n + 1) \div 2
FloorDiv(n, d) == n \div d

\* let powerOf2 = 1; while (powerOf2 < totalParticipants) powerOf2 *= 2;
RECURSIVE PowerOf2Loop(_, _)
PowerOf2Loop(powerOf2, totalParticipants) ==
  IF powerOf2 < totalParticipants
    THEN PowerOf2Loop(powerOf2 * 2, totalParticipants)
    ELSE powerOf2

\* String.fromCharCode for the upper-case letters, codes 65..90.
Letters ==
  <<"A", "B", "C", "D", "E", "F", "G", "H", "I", "J", "K", "L", "M",
    "N", "O", "P", "Q", "R", "S", "T", "U", "V", "W", "X", "Y", "Z">>
FromCharCode(code) == Letters[code - 64]

(***************************************************************************)
(* participantsForFirstRound.sort((a, b) => a.seed - b.seed)               *)
(* Array.prototype.sort is stable: equal seeds keep their input order.     *)
(***************************************************************************)
RECURSIVE InsertBySeed(_, _)
InsertBySeed(sorted, p) ==
  IF sorted = <<>> THEN <<p>>
  ELSE IF sorted[Len(sorted)].seed - p.seed > 0
    THEN Append(InsertBySeed(SubSeq(sorted, 1, Len(sorted) - 1), p),
                sorted[Len(sorted)])
    ELSE Append(sorted, p)

RECURSIVE SortLoop(_, _)
SortLoop(sorted, rest) ==
  IF rest = <<>> THEN sorted
  ELSE SortLoop(InsertBySeed(sorted, Head(rest)), Tail(rest))

\* Mutants of the sort: none at all, and the comparator reversed.
SortBySeed_Unsorted(ps) == ps

RECURSIVE InsertBySeedDescending(_, _)
InsertBySeedDescending(sorted, p) ==
  IF sorted = <<>> THEN <<p>>
  ELSE IF p.seed - sorted[Len(sorted)].seed > 0
    THEN Append(InsertBySeedDescending(SubSeq(sorted, 1, Len(sorted) - 1), p),
                sorted[Len(sorted)])
    ELSE Append(sorted, p)

RECURSIVE SortLoopDescending(_, _)
SortLoopDescending(sorted, rest) ==
  IF rest = <<>> THEN sorted
  ELSE SortLoopDescending(InsertBySeedDescending(sorted, Head(rest)), Tail(rest))

SortBySeed_Descending(ps) == SortLoopDescending(<<>>, ps)

SortBySeed(ps) == SortLoop(<<>>, ps)

(***************************************************************************)
(* generateFixturesBracket(participants): Match[]                          *)
(***************************************************************************)
\* Mutant: a bye only for an odd participant count.
ByeCount_OddOnly(totalParticipants) == totalParticipants % 2

\* if (powerOf2 > totalParticipants) byes = powerOf2 - totalParticipants
ByeCount(totalParticipants) ==
  LET powerOf2 == PowerOf2Loop(1, totalParticipants)
  IN  IF powerOf2 > totalParticipants THEN powerOf2 - totalParticipants ELSE 0

\* Array.prototype.slice(start, end): the elements at the 0-based indices
\* start..end-1, both clamped to the array.
Slice(seq, start, end) ==
  SubSeq(seq, Min(start, Len(seq)) + 1, Min(end, Len(seq)))

\* playersInFirstRound[i], i counted from 0; undefined past the end.
At0(seq, i) == IF i + 1 <= Len(seq) THEN seq[i + 1] ELSE Undefined

\* Mutant: the first-round matches numbered by the loop index, i + 1.
RECURSIVE FirstRoundLoop_IndexNumbered(_, _, _)
FirstRoundLoop_IndexNumbered(matches, playersInFirstRound, i) ==
  IF i < Len(playersInFirstRound)
    THEN FirstRoundLoop_IndexNumbered(
           Append(matches,
                  Match(MatchId("match", 1, i + 1),
                        At0(playersInFirstRound, i),
                        At0(playersInFirstRound, i + 1),
                        Undefined, 1, i + 1)),
           playersInFirstRound, i + 2)
    ELSE matches

\* for (let i = 0; i < playersInFirstRound.length; i += 2) matches.push(...)
RECURSIVE FirstRoundLoop(_, _, _)
FirstRoundLoop(matches, playersInFirstRound, i) ==
  IF i < Len(playersInFirstRound)
    THEN FirstRoundLoop(
           Append(matches,
                  Match(MatchId("match", 1, Len(matches) + 1),
                        At0(playersInFirstRound, i),
                        At0(playersInFirstRound, i + 1),
                        Undefined, 1, Len(matches) + 1)),
           playersInFirstRound, i + 2)
    ELSE matches

\* playersWithByes.forEach(player => matches.push(...))
RECURSIVE ByeLoop(_, _)
ByeLoop(matches, playersWithByes) ==
  IF playersWithByes = <<>> THEN matches
  ELSE LET player == Head(playersWithByes)
       IN  ByeLoop(Append(matches,
                          Match(ByeMatchId(player.id), player, Undefined,
                                player, 1, Len(matches) + 1)),
                   Tail(playersWithByes))

\* for (let i = 0; i < nextRoundMatchesCount; i++) matches.push(placeholder)
RECURSIVE PlaceholderLoop(_, _, _, _, _)
PlaceholderLoop(matches, prefix, round, nextRoundMatchesCount, i) ==
  IF i < nextRoundMatchesCount
    THEN PlaceholderLoop(
           Append(matches,
                  Match(MatchId(prefix, round, i + 1), Undefined, Undefined,
                        Undefined, round, i + 1)),
           prefix, round, nextRoundMatchesCount, i + 1)
    ELSE matches

\* Mutants of the loop over the later rounds: it stops one round early
\* (> 2 for > 1), and it never increments round.
RECURSIVE SubsequentRounds_StopsAtTwo(_, _, _, _)
SubsequentRounds_StopsAtTwo(matches, prefix, currentRoundMatchesCount, round) ==
  IF currentRoundMatchesCount > 2
    THEN LET nextRoundMatchesCount == CeilHalf(currentRoundMatchesCount)
         IN  SubsequentRounds_StopsAtTwo(
               PlaceholderLoop(matches, prefix, round, nextRoundMatchesCount, 0),
               prefix, nextRoundMatchesCount, round + 1)
    ELSE matches

RECURSIVE SubsequentRounds_NoIncrement(_, _, _, _)
SubsequentRounds_NoIncrement(matches, prefix, currentRoundMatchesCount, round) ==
  IF currentRoundMatchesCount > 1
    THEN LET nextRoundMatchesCount == CeilHalf(currentRoundMatchesCount)
         IN  SubsequentRounds_NoIncrement(
               PlaceholderLoop(matches, prefix, round, nextRoundMatchesCount, 0),
               prefix, nextRoundMatchesCount, round)
    ELSE matches

\* while (currentRoundMatchesCount > 1) { ...; round++ }
RECURSIVE SubsequentRounds(_, _, _, _)
SubsequentRounds(matches, prefix, currentRoundMatchesCount, round) ==
  IF currentRoundMatchesCount > 1
    THEN LET nextRoundMatchesCount == CeilHalf(currentRoundMatchesCount)
         IN  SubsequentRounds(
               PlaceholderLoop(matches, prefix, round, nextRoundMatchesCount, 0),
               prefix, nextRoundMatchesCount, round + 1)
    ELSE matches

generateFixturesBracket(ps) ==
  LET totalParticipants == Len(ps)
      byes == ByeCount(totalParticipants)
      participantsForFirstRound == SortBySeed(ps)
      playersWithByes == Slice(participantsForFirstRound, 0, byes)
      playersInFirstRound ==
        Slice(participantsForFirstRound, byes, Len(participantsForFirstRound))
      round1 == ByeLoop(FirstRoundLoop(<<>>, playersInFirstRound, 0),
                        playersWithByes)
  IN  SubsequentRounds(round1, "match", Len(round1), 2)

(***************************************************************************)
(* generateGroupStage(participants): { groups, knockoutBracket }           *)
(***************************************************************************)
MaxGroups == 4
qualifiersPerGroup == 2

\* Mutant: Math.ceil for Math.floor.
GroupCount_Ceil(totalParticipants) ==
  Min(MaxGroups, Max(1, (totalParticipants + 3) \div 4))

\* Math.min(4, Math.max(1, Math.floor(totalParticipants / 4)))
GroupCount(totalParticipants) ==
  Min(MaxGroups, Max(1, FloorDiv(totalParticipants, 4)))

\* for (let i = 0; i < groupCount; i++) newGroups.push({ name, [], [] })
RECURSIVE CreateGroups(_, _, _)
CreateGroups(newGroups, groupCount, i) ==
  IF i < groupCount
    THEN CreateGroups(Append(newGroups, Group(FromCharCode(65 + i), <<>>, <<>>)),
                      groupCount, i + 1)
    ELSE newGroups

\* Mutant: the group index counted from 1, (index + 1) % groupCount.
RECURSIVE Distribute_OffByOne(_, _, _, _)
Distribute_OffByOne(newGroups, ps, groupCount, index) ==
  IF index < Len(ps)
    THEN LET groupIndex == (index + 1) % groupCount
             g == newGroups[groupIndex + 1]
         IN  Distribute_OffByOne(
               [newGroups EXCEPT ![groupIndex + 1] =
                  Group(g.name, Append(g.participants, ps[index + 1]), g.matches)],
               ps, groupCount, index + 1)
    ELSE newGroups

\* participants.forEach((participant, index) =>
\*   newGroups[index % groupCount].participants.push(participant))
RECURSIVE Distribute(_, _, _, _)
Distribute(newGroups, ps, groupCount, index) ==
  IF index < Len(ps)
    THEN LET groupIndex == index % groupCount
             g == newGroups[groupIndex + 1]
         IN  Distribute(
               [newGroups EXCEPT ![groupIndex + 1] =
                  Group(g.name, Append(g.participants, ps[index + 1]), g.matches)],
               ps, groupCount, index + 1)
    ELSE newGroups

\* Mutant: the inner loop starts at j = i, not at j = i + 1.
RECURSIVE RoundRobinLoop_SelfPair(_, _, _, _, _)
RoundRobinLoop_SelfPair(matches, name, groupParticipants, i, j) ==
  IF i >= Len(groupParticipants) THEN matches
  ELSE IF j >= Len(groupParticipants)
    THEN RoundRobinLoop_SelfPair(matches, name, groupParticipants, i + 1, i + 1)
    ELSE LET matchNumber == Len(matches) + 1
         IN  RoundRobinLoop_SelfPair(
               Append(matches,
                      Match(GroupMatchId(name, matchNumber),
                            groupParticipants[i + 1], groupParticipants[j + 1],
                            Undefined, 1, matchNumber)),
               name, groupParticipants, i, j + 1)

\* The two nested loops over i < j of one group; matchNumber is the
\* counter the code increments after each push.
RECURSIVE RoundRobinLoop(_, _, _, _, _)
RoundRobinLoop(matches, name, groupParticipants, i, j) ==
  IF i >= Len(groupParticipants) THEN matches
  ELSE IF j >= Len(groupParticipants)
    THEN RoundRobinLoop(matches, name, groupParticipants, i + 1, i + 2)
    ELSE LET matchNumber == Len(matches) + 1
         IN  RoundRobinLoop(
               Append(matches,
                      Match(GroupMatchId(name, matchNumber),
                            groupParticipants[i + 1], groupParticipants[j + 1],
                            Undefined, 1, matchNumber)),
               name, groupParticipants, i, j + 1)

\* newGroups.forEach(group => { ... group.matches.push(...) ... })
GroupMatches(newGroups) ==
  [g \in DOMAIN newGroups |->
     Group(newGroups[g].name, newGroups[g].participants,
           RoundRobinLoop(newGroups[g].matches, newGroups[g].name,
                          newGroups[g].participants, 0, 1))]

\* Mutant: one first-round match per qualifier (the division by 2 left out).
KnockoutBracket_OnePerQualifier(groupCount) ==
  LET totalQualifiers == groupCount * qualifiersPerGroup
  IN  IF totalQualifiers >= 2
        THEN LET first == PlaceholderLoop(<<>>, "knockout", 1, totalQualifiers, 0)
             IN  SubsequentRounds(first, "knockout", Len(first), 2)
        ELSE <<>>

\* The knockout bracket for groupCount * qualifiersPerGroup qualifiers.
KnockoutBracket(groupCount) ==
  LET totalQualifiers == groupCount * qualifiersPerGroup
  IN  IF totalQualifiers >= 2
        THEN LET first == PlaceholderLoop(<<>>, "knockout", 1,
                                          FloorDiv(totalQualifiers, 2), 0)
             IN  SubsequentRounds(first, "knockout", Len(first), 2)
        ELSE <<>>

generateGroupStage(ps) ==
  LET totalParticipants == Len(ps)
      groupCount == GroupCount(totalParticipants)
      newGroups == GroupMatches(
                     Distribute(CreateGroups(<<>>, groupCount, 0), ps, groupCount, 0))
  IN  [groups |-> newGroups, knockoutBracket |-> KnockoutBracket(groupCount)]

(***************************************************************************)
(* class RateLimiter                                                       *)
(***************************************************************************)
Keys == {"key1", "key2"}
WindowChoices == {3000}

\* attempts.get(key) of a key without entry (undefined).
NoAttempt == [count |-> 0, resetTime |-> 0, lastAttempt |-> 0]
HasAttempt(att, key) == att[key] # NoAttempt

\* Math.pow(2, n), n >= 0
RECURSIVE Pow2(_)
Pow2(n) == IF n <= 0 THEN 1 ELSE 2 * Pow2(n - 1)

\* getProgressiveDelay: Math.min(1000 * Math.pow(2, attemptCount - 1), 30000)
getProgressiveDelay(attemptCount) == Min(1000 * Pow2(attemptCount - 1), 30000)

Return(allowed, remainingAttempts, resetTime, requiresCaptcha) ==
  [allowed |-> allowed, remainingAttempts |-> remainingAttempts,
   resetTime |-> resetTime, requiresCaptcha |-> requiresCaptcha]

\* Mutant: the limit test is attempt.count > maxAttempts.
isAllowed_OneMore(att, blocked, key, maxAttempts, windowMs, t) ==
  LET attempt == att[key]
  IN  IF key \in blocked
        THEN [attempts |-> att, blockedIPs |-> blocked,
              result |-> Return(FALSE, 0, t + 3600000, TRUE)]
      ELSE IF ~HasAttempt(att, key) \/ t > attempt.resetTime
        THEN [attempts |-> [att EXCEPT ![key] =
                              [count |-> 1, resetTime |-> t + windowMs,
                               lastAttempt |-> t]],
              blockedIPs |-> blocked,
              result |-> Return(TRUE, maxAttempts - 1, t + windowMs, FALSE)]
      ELSE IF t - attempt.lastAttempt < getProgressiveDelay(attempt.count)
        THEN [attempts |-> att, blockedIPs |-> blocked,
              result |-> Return(FALSE, Max(0, maxAttempts - attempt.count),
                                attempt.resetTime, attempt.count >= 3)]
      ELSE IF attempt.count > maxAttempts
        THEN [attempts |-> att,
              blockedIPs |-> IF attempt.count >= maxAttempts * 2
                               THEN blocked \cup {key} ELSE blocked,
              result |-> Return(FALSE, 0, attempt.resetTime, TRUE)]
      ELSE [attempts |-> [att EXCEPT ![key] =
                            [count |-> attempt.count + 1,
                             resetTime |-> attempt.resetTime,
                             lastAttempt |-> t]],
            blockedIPs |-> blocked,
            result |-> Return(TRUE, Max(0, maxAttempts - (attempt.count + 1)),
                              attempt.resetTime, attempt.count + 1 >= 3)]

\* Mutant: an expired entry is counted on, not replaced (only a missing
\* entry opens a window).
isAllowed_NoExpiry(att, blocked, key, maxAttempts, windowMs, t) ==
  LET attempt == att[key]
  IN  IF key \in blocked
        THEN [attempts |-> att, blockedIPs |-> blocked,
              result |-> Return(FALSE, 0, t + 3600000, TRUE)]
      ELSE IF ~HasAttempt(att, key)
        THEN [attempts |-> [att EXCEPT ![key] =
                              [count |-> 1, resetTime |-> t + windowMs,
                               lastAttempt |-> t]],
              blockedIPs |-> blocked,
              result |-> Return(TRUE, maxAttempts - 1, t + windowMs, FALSE)]
      ELSE IF t - attempt.lastAttempt < getProgressiveDelay(attempt.count)
        THEN [attempts |-> att, blockedIPs |-> blocked,
              result |-> Return(FALSE, Max(0, maxAttempts - attempt.count),
                                attempt.resetTime, attempt.count >= 3)]
      ELSE IF attempt.count >= maxAttempts
        THEN [attempts |-> att,
              blockedIPs |-> IF attempt.count >= maxAttempts * 2
                               THEN blocked \cup {key} ELSE blocked,
              result |-> Return(FALSE, 0, attempt.resetTime, TRUE)]
      ELSE [attempts |-> [att EXCEPT ![key] =
                            [count |-> attempt.count + 1,
                             resetTime |-> attempt.resetTime,
                             lastAttempt |-> t]],
            blockedIPs |-> blocked,
            result |-> Return(TRUE, Max(0, maxAttempts - (attempt.count + 1)),
                              attempt.resetTime, attempt.count + 1 >= 3)]

\* Mutant: the key is blocked as soon as the limit is reached.
isAllowed_BlocksAtLimit(att, blocked, key, maxAttempts, windowMs, t) ==
  LET attempt == att[key]
  IN  IF key \in blocked
        THEN [attempts |-> att, blockedIPs |-> blocked,
              result |-> Return(FALSE, 0, t + 3600000, TRUE)]
      ELSE IF ~HasAttempt(att, key) \/ t > attempt.resetTime
        THEN [attempts |-> [att EXCEPT ![key] =
                              [count |-> 1, resetTime |-> t + windowMs,
                               lastAttempt |-> t]],
              blockedIPs |-> blocked,
              result |-> Return(TRUE, maxAttempts - 1, t + windowMs, FALSE)]
      ELSE IF t - attempt.lastAttempt < getProgressiveDelay(attempt.count)
        THEN [attempts |-> att, blockedIPs |-> blocked,
              result |-> Return(FALSE, Max(0, maxAttempts - attempt.count),
                                attempt.resetTime, attempt.count >= 3)]
      ELSE IF attempt.count >= maxAttempts
        THEN [attempts |-> att,
              blockedIPs |-> IF attempt.count >= maxAttempts
                               THEN blocked \cup {key} ELSE blocked,
              result |-> Return(FALSE, 0, attempt.resetTime, TRUE)]
      ELSE [attempts |-> [att EXCEPT ![key] =
                            [count |-> attempt.count + 1,
                             resetTime |-> attempt.resetTime,
                             lastAttempt |-> t]],
            blockedIPs |-> blocked,
            result |-> Return(TRUE, Max(0, maxAttempts - (attempt.count + 1)),
                              attempt.resetTime, attempt.count + 1 >= 3)]

\* RateLimiter.isAllowed(key, maxAttempts, windowMs) at Date.now() = t: the
\* maps after the call and the value returned.
isAllowed(att, blocked, key, maxAttempts, windowMs, t) ==
  LET attempt == att[key]
  IN  IF key \in blocked
        THEN [attempts |-> att, blockedIPs |-> blocked,
              result |-> Return(FALSE, 0, t + 3600000, TRUE)]
      ELSE IF ~HasAttempt(att, key) \/ t > attempt.resetTime
        THEN [attempts |-> [att EXCEPT ![key] =
                              [count |-> 1, resetTime |-> t + windowMs,
                               lastAttempt |-> t]],
              blockedIPs |-> blocked,
              result |-> Return(TRUE, maxAttempts - 1, t + windowMs, FALSE)]
      ELSE IF t - attempt.lastAttempt < getProgressiveDelay(attempt.count)
        THEN [attempts |-> att, blockedIPs |-> blocked,
              result |-> Return(FALSE, Max(0, maxAttempts - attempt.count),
                                attempt.resetTime, attempt.count >= 3)]
      ELSE IF attempt.count >= maxAttempts
        THEN [attempts |-> att,
              blockedIPs |-> IF attempt.count >= maxAttempts * 2
                               THEN blocked \cup {key} ELSE blocked,
              result |-> Return(FALSE, 0, attempt.resetTime, TRUE)]
      ELSE [attempts |-> [att EXCEPT ![key] =
                            [count |-> attempt.count + 1,
                             resetTime |-> attempt.resetTime,
                             lastAttempt |-> t]],
            blockedIPs |-> blocked,
            result |-> Return(TRUE, Max(0, maxAttempts - (attempt.count + 1)),
                              attempt.resetTime, attempt.count + 1 >= 3)]

\* Mutant: reset without blockedIPs.delete(key).
reset_KeepsBlocked(att, blocked, key) ==
  [attempts |-> [att EXCEPT ![key] = NoAttempt], blockedIPs |-> blocked]

\* RateLimiter.reset(key): attempts.delete(key); blockedIPs.delete(key)
reset(att, blocked, key) ==
  [attempts |-> [att EXCEPT ![key] = NoAttempt], blockedIPs |-> blocked \ {key}]

\* RateLimiter.isBlocked(key), RateLimiter.getAttemptCount(key)
isBlocked(blocked, key) == key \in blocked
getAttemptCount(att, key) == IF HasAttempt(att, key) THEN att[key].count ELSE 0

\* The last call: its name and arguments, what it found for the key (after:
\* "expired" when isAllowed came after the resetTime of the key's entry,
\* "exhausted" when that entry had also reached maxAttempts; for reset,
\* "blocked" or "attempted" when the key was blocked or had an entry) and
\* the value it returned.
NoReturn == [op |-> "none", key |-> "", maxAttempts |-> 0, windowMs |-> 0,
             after |-> "", result |-> Return(FALSE, 0, 0, FALSE)]
\* The history of a key's window: calls and allowed count the isAllowed
\* calls since the window opened (or since reset), maxUsed is their
\* maxAttempts (0: no call yet, -1: several values).
NoWindow == [calls |-> 0, allowed |-> 0, maxUsed |-> 0]

RateLimiterInit ==
  /\ now = 0
  /\ attempts = [k \in Keys |-> NoAttempt]
  /\ blockedIPs = {}
  /\ rlReturn = NoReturn
  /\ rlWindow = [k \in Keys |-> NoWindow]

(***************************************************************************)
(* class ErrorHandler                                                      *)
(***************************************************************************)
\* null in the source.
Null == "null"

\* What supabase.auth.signOut can resolve as { error }: a plain error, a
\* network error (its message includes 'fetch') and an error with a code.
NoError == [message |-> Null, code |-> Null]
BackendErrors ==
  { [message |-> "Sign out failed", code |-> Null],
    [message |-> "Failed to fetch", code |-> Null],
    [message |-> "Unauthorized", code |-> "unauthorized"],
    [message |-> "Service unavailable", code |-> "service_unavailable"] }

\* error?.message?.includes('fetch')
IncludesFetch(message) == message \in {"Failed to fetch"}

\* errorMap of handleSupabaseError, on the codes of BackendErrors
errorMap ==
  [code \in {"unauthorized"} |->
     "Vous n'etes pas autorise a effectuer cette action."]

handleSupabaseError(error) ==
  [message |-> IF error.code \in DOMAIN errorMap THEN errorMap[error.code]
               ELSE IF error.message \notin {Null, ""} THEN error.message
               ELSE "Une erreur s'est produite.",
   code |-> error.code]

handle(error) ==
  IF error.code \notin {Null, ""} THEN handleSupabaseError(error)
  ELSE IF error.message # Null /\ IncludesFetch(error.message)
    THEN [message |-> "Erreur de connexion. Verifiez votre connexion internet.",
          code |-> "NETWORK_ERROR"]
  ELSE IF error.message \notin {Null, ""}
    THEN [message |-> error.message, code |-> "GENERIC_ERROR"]
  ELSE [message |-> "Une erreur inattendue s'est produite.",
        code |-> "UNKNOWN_ERROR"]

(***************************************************************************)
(* classes CSRFProtection and SessionSecurity                              *)
(***************************************************************************)
TOKEN_VALIDITY == 3600000

\* generateSecureToken: 32 random bytes in hex.  The values it returns, in
\* the order of the calls; no two calls return the same string.
SecureTokens == <<"sid-1", "sid-2", "sid-3", "sid-4">>
generateSessionId(n) == SecureTokens[n + 1]

\* Map.set and Map.delete
MapSet(map, key, value) ==
  [k \in DOMAIN map \cup {key} |-> IF k = key THEN value ELSE map[k]]
MapDelete(map, key) == [k \in DOMAIN map \ {key} |-> map[k]]

\* CSRFProtection.generateToken(sessionId): the token is as fresh as the
\* session id and is named after it.
generateToken(toks, id, t) ==
  [tokens |-> MapSet(toks, id, [token |-> id, expires |-> t + TOKEN_VALIDITY]),
   csrfStored |-> id]

\* CSRFProtection.clearToken(sessionId?)
clearToken(toks, id) ==
  [tokens |-> IF id # Null THEN MapDelete(toks, id) ELSE toks,
   csrfStored |-> Null]

\* SessionSecurity.createSession(userId), the n-th generated id
createSession(sess, toks, n, t) ==
  LET id == generateSessionId(n)
      csrf == generateToken(toks, id, t)
  IN  [sessions |-> MapSet(sess, id, [created |-> t, lastActivity |-> t,
                                      fingerprint |-> "fingerprint"]),
       tokens |-> csrf.tokens,
       csrfStored |-> csrf.csrfStored,
       sessionId |-> id]

\* SessionSecurity.destroySession(sessionId)
destroySession(sess, toks, id) ==
  LET csrf == clearToken(toks, id)
  IN  [sessions |-> MapDelete(sess, id),
       tokens |-> csrf.tokens,
       csrfStored |-> csrf.csrfStored]

\* SessionSecurity.invalidateSession(sessionId)
invalidateSession(sess, toks, id) == destroySession(sess, toks, id)

MAX_SESSION_DURATION == 8 * 60 * 60 * 1000
INACTIVITY_TIMEOUT == 30 * 60 * 1000

\* generateFingerprint(): the browser's fingerprint when the sessions are
\* created, and what it can be at a later call (user agent, language,
\* screen size or time zone changed).
Fingerprints == {"fingerprint", "fingerprint-2"}

ValidationResult(valid, reason) == [valid |-> valid, reason |-> reason]

\* SessionSecurity.validateSession(sessionId) at time t, the browser's
\* fingerprint being currentFingerprint
validateSession_NoExpiry(sess, id, t, currentFingerprint) ==
  IF id \notin DOMAIN sess
    THEN [sessions |-> sess, result |-> ValidationResult(FALSE, "invalid")]
  ELSE IF t - sess[id].lastActivity > INACTIVITY_TIMEOUT
    THEN [sessions |-> MapDelete(sess, id),
          result |-> ValidationResult(FALSE, "inactive")]
  ELSE IF sess[id].fingerprint # currentFingerprint
    THEN [sessions |-> MapDelete(sess, id),
          result |-> ValidationResult(FALSE, "fingerprint_mismatch")]
  ELSE [sessions |-> [sess EXCEPT ![id].lastActivity = t],
        result |-> ValidationResult(TRUE, Null)]

validateSession(sess, id, t, currentFingerprint) ==
  IF id \notin DOMAIN sess
    THEN [sessions |-> sess, result |-> ValidationResult(FALSE, "invalid")]
  ELSE IF t - sess[id].created > MAX_SESSION_DURATION
    THEN [sessions |-> MapDelete(sess, id),
          result |-> ValidationResult(FALSE, "expired")]
  ELSE IF t - sess[id].lastActivity > INACTIVITY_TIMEOUT
    THEN [sessions |-> MapDelete(sess, id),
          result |-> ValidationResult(FALSE, "inactive")]
  ELSE IF sess[id].fingerprint # currentFingerprint
    THEN [sessions |-> MapDelete(sess, id),
          result |-> ValidationResult(FALSE, "fingerprint_mismatch")]
  ELSE [sessions |-> [sess EXCEPT ![id].lastActivity = t],
        result |-> ValidationResult(TRUE, Null)]

\* SessionSecurity.refreshActivity(sessionId)
refreshActivity(sess, id, t) ==
  IF id \in DOMAIN sess THEN [sess EXCEPT ![id].lastActivity = t] ELSE sess

\* CSRFProtection.validateToken(sessionId, providedToken)
validateToken(toks, id, providedToken, t) ==
  IF id \notin DOMAIN toks THEN [tokens |-> toks, valid |-> FALSE]
  ELSE IF t > toks[id].expires
    THEN [tokens |-> MapDelete(toks, id), valid |-> FALSE]
  ELSE [tokens |-> toks, valid |-> toks[id].token = providedToken]

(***************************************************************************)
(* useAuthProvider                                                         *)
(***************************************************************************)
Users == {"user-1"}

\* No signOut call made yet.
NoSignOut == [pc |-> "idle", promise |-> "none", error |-> NoError,
              logged |-> Null, reason |-> Null]

\* No auth event delivered to the listener yet.  sessionId is the session
\* the last SIGNED_IN event created, mounted tells whether the component
\* was mounted when the event was delivered.
NoEvent == [event |-> "none", sessionId |-> Null, mounted |-> TRUE]

\* No SessionSecurity call made yet (SessionSpec).
NoSessionCall == [op |-> "none", sessionId |-> Null, existed |-> FALSE,
                  tooOld |-> FALSE, tooIdle |-> FALSE,
                  result |-> ValidationResult(FALSE, Null)]

\* A React state setter: a no-op once the component is unmounted.
SetState(isMounted, current, value) == IF isMounted THEN value ELSE current

\* The hook is not rendered.
AuthUnmounted ==
  /\ user = Null
  /\ loading = TRUE
  /\ sessionId = Null
  /\ sessions = << >>
  /\ tokens = << >>
  /\ csrfStored = Null
  /\ authPc = "unmounted"
  /\ subscribed = FALSE
  /\ created = 0
  /\ signOutCall = NoSignOut
  /\ mounted = FALSE
  /\ lastEvent = NoEvent
  /\ ssReturn = NoSessionCall

\* The first render: useState initial values, initializeSecurity started
\* and waiting for supabase.auth.getSession().
AuthInit ==
  /\ user = Null
  /\ loading = TRUE
  /\ sessionId = Null
  /\ sessions = << >>
  /\ tokens = << >>
  /\ csrfStored = Null
  /\ authPc = "initializing"
  /\ subscribed = FALSE
  /\ created = 0
  /\ signOutCall = NoSignOut
  /\ mounted = TRUE
  /\ lastEvent = NoEvent
  /\ ssReturn = NoSessionCall

\* The sessionId the auth state listener reads: the effect runs once
\* (dependencies []), so the listener closes over the first render's value.
ListenerSessionId == Null

(***************************************************************************)
(* useTournamentStore                                                      *)
(***************************************************************************)
MAX_RETRIES == 3
ItemsPerPage == 12

\* Math.ceil(a / b), b > 0 (a = -1 gives -0)
CeilDiv(a, b) == -((-a) \div b)

\* What a tournamentService call can reject with: a network error and the
\* timeout of Promise.race.
StoreErrors ==
  { [message |-> "Failed to fetch", code |-> Null],
    [message |-> "Request timeout", code |-> Null] }

\* error?.message?.includes('network')
IncludesNetwork(message) == message \in {"network error"}

\* ErrorHandler.isNetworkError
isNetworkError(error) ==
  \/ error.code = "NETWORK_ERROR"
  \/ IncludesFetch(error.message)
  \/ IncludesNetwork(error.message)

\* const isRetryable = ErrorHandler.isNetworkError(error) && retryCount < MAX_RETRIES
isRetryable_OneMore(error, retryCount) ==
  isNetworkError(error) /\ retryCount <= MAX_RETRIES

isRetryable(error, retryCount) ==
  isNetworkError(error) /\ retryCount < MAX_RETRIES

\* The error string of the store: `${prefix}${message}` followed by
\* ` (after ${retries} retries)` when retries > 0.
ErrorText(prefix, message, retries) ==
  [prefix |-> prefix, message |-> message, retries |-> retries]
\* error: null
NoErrorText == ErrorText("", Null, 0)

\* The tournaments are told apart by their ids: getAll returns the ids
\* 1..k, create returns a new id above MaxFetched.
Ids(k) == [i \in 1..k |-> i]
FetchedLists == { Ids(k) : k \in {0, 1, MaxFetched} }
\* The ids deleteTournament and updateTournament are called with: the
\* first and the last fetched id, and an id that is never stored (0).
TargetIds == {0, 1, MaxFetched}

\* tournaments.filter(t => t.id !== id)
FilterOut(ts, id) == SelectSeq(ts, LAMBDA t : t # id)

\* A call in flight: op and its argument, the retryCount it was called
\* with, the number of tournamentService calls the invocation has made,
\* whether every failure so far was a network error, and where it
\* stands: "awaiting" the service call or "scheduled" (setTimeout set).
Slots == {"request-1", "request-2"}
NoRequest == [op |-> "none", arg |-> 0, retryCount |-> 0, calls |-> 0,
              allNetwork |-> TRUE, phase |-> "idle"]
Request(op, arg) == [NoRequest EXCEPT !.op = op, !.arg = arg, !.calls = 1,
                                      !.phase = "awaiting"]

InitialStore ==
  [tournaments |-> << >>, currentTournament |-> Null, loading |-> FALSE,
   error |-> NoErrorText, totalPages |-> 1, itemsPerPage |-> ItemsPerPage]

StoreInit ==
  /\ tournamentStore = InitialStore
  /\ requests = [slot \in Slots |-> NoRequest]
  /\ createdCount = 0

(***************************************************************************)
(* useNotificationStore                                                    *)
(***************************************************************************)
Notification(id, read) == [id |-> id, read |-> read]
NotificationIds == {"n1", "n2"}

\* What notificationService.getUserNotifications resolves with.
FetchedNotifications ==
  { << >>,
    << Notification("n1", FALSE) >>,
    << Notification("n2", TRUE), Notification("n1", FALSE) >> }

InitialNotifications ==
  [notifications |-> << >>, unreadCount |-> 0, loading |-> FALSE, error |-> Null]

\* notifications.filter(n => !n.read).length
Unread(ns) == Len(SelectSeq(ns, LAMBDA n : ~n.read))

\* state.notifications.find(n => n.id === notificationId) is undefined
NotFound(ns, id) == \A i \in DOMAIN ns : ns[i].id # id
\* (the notification found).read
FoundRead(ns, id) ==
  ns[CHOOSE i \in DOMAIN ns :
       ns[i].id = id /\ \A j \in 1..(i - 1) : ns[j].id # id].read

\* the set(...) of fetchNotifications after the await
fetchNotificationsSet(st, ns) ==
  [st EXCEPT !.notifications = ns, !.unreadCount = Unread(ns)]

\* the set(state => ...) of markAsRead
markAsReadSet(st, id) ==
  [st EXCEPT
     !.notifications = [i \in DOMAIN st.notifications |->
                          IF st.notifications[i].id = id
                            THEN [st.notifications[i] EXCEPT !.read = TRUE]
                            ELSE st.notifications[i]],
     !.unreadCount = Max(0, st.unreadCount - 1)]

\* the set(state => ...) of markAllAsRead
markAllAsReadSet(st) ==
  [st EXCEPT
     !.notifications = [i \in DOMAIN st.notifications |->
                          [st.notifications[i] EXCEPT !.read = TRUE]],
     !.unreadCount = 0]

addNotification(st, notification) ==
  [st EXCEPT
     !.notifications = <<notification>> \o st.notifications,
     !.unreadCount = st.unreadCount + (IF notification.read THEN 0 ELSE 1)]

removeNotification(st, id) ==
  [st EXCEPT
     !.notifications = SelectSeq(st.notifications, LAMBDA n : n.id # id),
     !.unreadCount =
        st.unreadCount
          - (IF ~NotFound(st.notifications, id) /\ FoundRead(st.notifications, id)
               THEN 0 ELSE 1)]

NotifInit ==
  /\ notificationStore = InitialNotifications
  /\ notifPending = {}

(***************************************************************************)
(* class SecurityMonitor                                                   *)
(***************************************************************************)
maxEvents == 1000

\* An argument left out (undefined).
Omitted == "undefined"

\* SecurityEvent; the id stands for generateEventId(): the n-th event
\* logged has id n.
SecurityEvent(id, type, timestamp, userId, severity) ==
  [id |-> id, type |-> type, timestamp |-> timestamp, userId |-> userId,
   ip |-> "client-side", severity |-> severity]

defaultSecurityMetrics ==
  [rateLimitViolations |-> 0, failedLoginAttempts |-> 0,
   suspiciousActivities |-> 0]

updateMetrics(m, type) ==
  IF type = "RATE_LIMIT_EXCEEDED"
    THEN [m EXCEPT !.rateLimitViolations = @ + 1]
  ELSE IF type \in {"BRUTE_FORCE_ATTEMPT", "MULTIPLE_FAILED_LOGINS"}
    THEN [m EXCEPT !.failedLoginAttempts = @ + 1]
  ELSE IF type = "SUSPICIOUS_LOGIN_PATTERN"
    THEN [m EXCEPT !.suspiciousActivities = @ + 1]
  ELSE m

\* this.events.slice(-this.maxEvents)
SliceLast(evts, n) ==
  IF Len(evts) > n THEN SubSeq(evts, Len(evts) - n + 1, Len(evts)) ELSE evts

\* SecurityMonitor.logEvent(type, details, severity, userId), the (n+1)-th
\* call, at time t.  No listener is registered.
logEvent(evts, m, n, type, severity, userId, t) ==
  LET pushed == Append(evts, SecurityEvent(n + 1, type, t, userId, severity))
  IN  [events |-> IF Len(pushed) > maxEvents THEN SliceLast(pushed, maxEvents)
                  ELSE pushed,
       metrics |-> updateMetrics(m, type),
       logged |-> n + 1]

\* count consecutive logEvent calls with the same arguments at time t.
\* Slicing after every push keeps what one slice after the last push
\* keeps, and every call adds the same amounts to the metrics.
logEvents(evts, m, n, type, severity, userId, t, count) ==
  LET pushed == evts \o [i \in 1..count |->
                           SecurityEvent(n + i, type, t, userId, severity)]
      once == updateMetrics(m, type)
  IN  [events |-> IF Len(pushed) > maxEvents THEN SliceLast(pushed, maxEvents)
                  ELSE pushed,
       metrics |-> [k \in DOMAIN m |-> m[k] + count * (once[k] - m[k])],
       logged |-> n + count]

\* Array.prototype.sort((a, b) => b.timestamp - a.timestamp): a stable
\* sort, the events of the latest timestamp first, each timestamp's events
\* in the order they had.
RECURSIVE SortByTimestampDescending(_, _)
SortByTimestampDescending(evts, stamps) ==
  IF stamps = {} THEN << >>
  ELSE LET latest == CHOOSE t \in stamps : \A u \in stamps : u <= t
       IN  SelectSeq(evts, LAMBDA e : e.timestamp = latest)
             \o SortByTimestampDescending(evts, stamps \ {latest})

Timestamps(evts) == { evts[i].timestamp : i \in DOMAIN evts }

\* SecurityMonitor.getRecentEvents(limit, severity, type): what it returns
\* and the events array after the call.  filter() makes a new array;
\* without a filter `filtered` is this.events itself, and sort() sorts it
\* in place.
getRecentEvents(evts, limit, severity, type) ==
  LET bySeverity == IF severity # Omitted
                      THEN SelectSeq(evts, LAMBDA e : e.severity = severity)
                      ELSE evts
      filtered == IF type # Omitted
                    THEN SelectSeq(bySeverity, LAMBDA e : e.type = type)
                    ELSE bySeverity
      sorted == SortByTimestampDescending(filtered, Timestamps(filtered))
  IN  [events |-> IF severity = Omitted /\ type = Omitted THEN sorted ELSE evts,
       result |-> SubSeq(sorted, 1, Min(limit, Len(sorted)))]

\* SecurityMonitor.detectSuspiciousActivity(userId, ip) at time t
detectSuspiciousActivity(evts, m, n, userId, ip, t) ==
  LET recent == getRecentEvents(evts, 100, Omitted, Omitted)
      failedAttemptsFromIP ==
        SelectSeq(recent.result,
                  LAMBDA e : /\ e.ip = ip
                             /\ e.timestamp > t - 15 * 60 * 1000
                             /\ e.type \in {"BRUTE_FORCE_ATTEMPT",
                                            "MULTIPLE_FAILED_LOGINS"})
      userEvents ==
        SelectSeq(recent.result,
                  LAMBDA e : /\ e.userId = userId
                             /\ e.timestamp > t - 5 * 60 * 1000)
      unchanged == [events |-> recent.events, metrics |-> m, logged |-> n]
  IN  IF ip # Omitted /\ Len(failedAttemptsFromIP) >= 5
        THEN logEvent(recent.events, m, n, "SUSPICIOUS_LOGIN_PATTERN", "high",
                      Omitted, t)
      ELSE IF userId # Omitted /\ Len(userEvents) >= 20
        THEN logEvent(recent.events, m, n, "SUSPICIOUS_LOGIN_PATTERN", "medium",
                      Omitted, t)
      ELSE unchanged

MonitorInit ==
  /\ events = << >>
  /\ metrics = defaultSecurityMetrics
  /\ logged = 0
  /\ singles = 0

(***************************************************************************)
(* matchService.createMatches                                              *)
(***************************************************************************)
\* Math.ceil(Math.log2(n)) for n >= 1: the least k with 2^k >= n.  For n = 0
\* the source computes -Infinity; the loop `round <= rounds` then runs as
\* often as for 0, never.
RECURSIVE CeilLog2From(_, _)
CeilLog2From(n, k) == IF 2 ^ k >= n THEN k ELSE CeilLog2From(n, k + 1)
CeilLog2(n) == CeilLog2From(n, 0)

\* A row of the matches table, as createMatches inserts it.
MatchRow(round, matchNum) ==
  [round |-> round, match_number |-> matchNum, status |-> "pending"]

\* The inner loop: matchNum = from .. matchesInRound
RECURSIVE InsertRound(_, _, _)
InsertRound(round, matchNum, matchesInRound) ==
  IF matchNum > matchesInRound THEN << >>
  ELSE <<MatchRow(round, matchNum)>>
         \o InsertRound(round, matchNum + 1, matchesInRound)

\* The outer loop: round = from .. rounds
RECURSIVE InsertRounds(_, _)
InsertRounds(round, rounds) ==
  IF round > rounds THEN << >>
  ELSE InsertRound(round, 1, 2 ^ (rounds - round))
         \o InsertRounds(round + 1, rounds)

\* createMatches(tournamentId, participants) when every insert succeeds
createMatches(ps) == InsertRounds(1, CeilLog2(Len(ps)))

PersistInit ==
  /\ matchRows = << >>
  /\ createMatchesCall = "none"

RestIdle == StoreInit /\ NotifInit /\ MonitorInit /\ PersistInit

(***************************************************************************)
(* The caller's array after a call.  generateFixturesBracket sorts in      *)
(* place, but the array it sorts is the spread copy [...participants] of   *)
(* line 383; generateGroupStage only reads the argument (forEach, push of  *)
(* the elements into the new groups).  No participant field is assigned.   *)
(***************************************************************************)
\* Mutant: the sort runs on the argument itself (no spread copy).
ArgumentAfterFixtures_SortedInPlace(ps) == SortBySeed(ps)

\* let participantsForFirstRound = [...participants]; the sort of line 401
\* writes participantsForFirstRound, never participants.
ArgumentAfterFixtures(ps) == ps

ArgumentAfterGroupStage(ps) == ps

(***************************************************************************)
(* The caller: the participant list it holds, the format it chose, and the *)
(* structures it stores once generateBracket has run (step 2 -> step 3).   *)
(***************************************************************************)
\* Lists of n participants with any seeds; ids and names follow the index.
FreeInputs ==
  UNION { { [i \in 1..n |-> Participant(i, i, f[i])] : f \in [1..n -> 1..MaxSeed] }
          : n \in 0..MaxFree }

\* Lists of n participants created with seed = id = 1..n and then reordered:
\* every rotation of the ascending and of the descending order.
DenseInputs ==
  UNION { { [i \in 1..n |->
               LET r == ((i - 1 + k) % n) + 1
                   sd == IF asc THEN r ELSE n + 1 - r
               IN  Participant(sd, sd, sd)] : k \in 0..(n - 1), asc \in BOOLEAN }
          : n \in 1..MaxDense }

Inputs == FreeInputs \cup DenseInputs

Init ==
  /\ participants \in Inputs
  /\ format \in {"fixtures", "group_stage"}
  /\ bracket = <<>>
  /\ groups = <<>>
  /\ step = 2
  /\ RateLimiterInit
  /\ AuthUnmounted
  /\ RestIdle

\* generateBracket, format === 'fixtures'
GenerateFixtures ==
  /\ step = 2
  /\ format = "fixtures"
  /\ bracket' = generateFixturesBracket(participants)
  /\ participants' = ArgumentAfterFixtures(participants)
  /\ step' = 3
  /\ UNCHANGED <<groups, format, rlVars, authVars, restVars>>

\* generateBracket, format === 'group_stage'
GenerateGroups ==
  /\ step = 2
  /\ format = "group_stage"
  /\ LET result == generateGroupStage(participants)
     IN  /\ groups' = result.groups
         /\ bracket' = result.knockoutBracket
  /\ participants' = ArgumentAfterGroupStage(participants)
  /\ step' = 3
  /\ UNCHANGED <<format, rlVars, authVars, restVars>>

Next == GenerateFixtures \/ GenerateGroups

Spec == Init /\ [][Next]_vars

(***************************************************************************)
(* The callers of RateLimiter: any interleaving of isAllowed and reset     *)
(* calls on the keys, with any maxAttempts and window, as time passes.     *)
(***************************************************************************)
\* The creation workflow has not started.
BracketIdle ==
  /\ participants = <<>>
  /\ format = "fixtures"
  /\ bracket = <<>>
  /\ groups = <<>>
  /\ step = 1

RateLimiterSpecInit == BracketIdle /\ RateLimiterInit /\ AuthUnmounted /\ RestIdle

\* Date.now() advances by one second.
Tick ==
  /\ now < MaxTime * 1000
  /\ now' = now + 1000
  /\ UNCHANGED <<attempts, blockedIPs, rlReturn, rlWindow, bracketVars, authVars, restVars>>

WindowAfter(w, opensWindow, allowed, maxAttempts) ==
  LET base == IF opensWindow THEN NoWindow ELSE w
  IN  [calls |-> Min(base.calls + 1, MaxAttemptsArg + 2),
       allowed |-> base.allowed + (IF allowed THEN 1 ELSE 0),
       maxUsed |-> IF base.maxUsed \in {0, maxAttempts}
                     THEN maxAttempts ELSE -1]

CallIsAllowed(key, maxAttempts, windowMs) ==
  LET r == isAllowed(attempts, blockedIPs, key, maxAttempts, windowMs, now)
      opensWindow == key \notin blockedIPs
                       /\ (~HasAttempt(attempts, key) \/ now > attempts[key].resetTime)
  IN  /\ attempts' = r.attempts
      /\ blockedIPs' = r.blockedIPs
      /\ rlReturn' = [op |-> "isAllowed", key |-> key, maxAttempts |-> maxAttempts,
                      windowMs |-> windowMs,
                      after |-> IF HasAttempt(attempts, key)
                                     /\ now > attempts[key].resetTime
                                  THEN IF attempts[key].count >= maxAttempts
                                         THEN "exhausted" ELSE "expired"
                                  ELSE "",
                      result |-> r.result]
      /\ rlWindow' = [rlWindow EXCEPT ![key] =
                        WindowAfter(@, opensWindow, r.result.allowed, maxAttempts)]
      /\ UNCHANGED <<now, bracketVars, authVars, restVars>>

CallReset(key) ==
  LET r == reset(attempts, blockedIPs, key)
  IN  /\ attempts' = r.attempts
      /\ blockedIPs' = r.blockedIPs
      /\ rlReturn' = [NoReturn EXCEPT
                        !.op = "reset", !.key = key,
                        !.after = IF key \in blockedIPs THEN "blocked"
                                  ELSE IF HasAttempt(attempts, key)
                                    THEN "attempted" ELSE ""]
      /\ rlWindow' = [rlWindow EXCEPT ![key] = NoWindow]
      /\ UNCHANGED <<now, bracketVars, authVars, restVars>>

RateLimiterNext ==
  \/ Tick
  \/ \E key \in Keys, maxAttempts \in 1..MaxAttemptsArg, windowMs \in WindowChoices :
       CallIsAllowed(key, maxAttempts, windowMs)
  \/ \E key \in Keys : CallReset(key)

RateLimiterSpec == RateLimiterSpecInit /\ [][RateLimiterNext]_vars

(***************************************************************************)
(* useAuthProvider rendered once: initializeSecurity, the auth state       *)
(* listener and signOut, as time passes.                                   *)
(***************************************************************************)
AuthSpecInit == BracketIdle /\ RateLimiterInit /\ AuthInit /\ RestIdle

\* initializeSecurity once getSession has resolved (session is the
\* session's user or Null) and, with a session, once fetchProfile has
\* settled (profileOk: it resolved).
InitializeSecurity(session, profileOk) ==
  /\ authPc = "initializing"
  /\ IF session # Null
       THEN LET s == createSession(sessions, tokens, created, now)
            IN  /\ sessions' = s.sessions
                /\ tokens' = s.tokens
                /\ csrfStored' = s.csrfStored
                /\ sessionId' = SetState(mounted, sessionId, s.sessionId)
                /\ created' = created + 1
                /\ user' = IF profileOk THEN SetState(mounted, user, session)
                           ELSE user
                \* fetchProfile rethrows: the catch block logs and the
                \* listener is never registered
                /\ subscribed' = profileOk
       ELSE /\ profileOk
            /\ subscribed' = TRUE
            /\ UNCHANGED <<sessions, tokens, csrfStored, sessionId, created, user>>
  /\ loading' = SetState(mounted, loading, FALSE)
  /\ authPc' = "ready"
  /\ UNCHANGED <<signOutCall, mounted, lastEvent, ssReturn,
                 bracketVars, rlVars, restVars>>

\* The listener of onAuthStateChange, event SIGNED_IN with a session
SignedIn(session, profileOk) ==
  /\ subscribed
  /\ created < MaxSessions
  /\ LET s == createSession(sessions, tokens, created, now)
     IN  /\ sessions' = s.sessions
         /\ tokens' = s.tokens
         /\ csrfStored' = s.csrfStored
         /\ sessionId' = SetState(mounted, sessionId, s.sessionId)
         /\ lastEvent' = [event |-> "SIGNED_IN", sessionId |-> s.sessionId,
                          mounted |-> mounted]
  /\ created' = created + 1
  /\ user' = IF profileOk THEN SetState(mounted, user, session) ELSE user
  /\ UNCHANGED <<loading, authPc, subscribed, signOutCall, mounted, ssReturn,
                 bracketVars, rlVars, restVars>>

\* The listener of onAuthStateChange, event SIGNED_OUT
SignedOut ==
  /\ subscribed
  /\ IF ListenerSessionId # Null
       THEN LET d == invalidateSession(sessions, tokens, ListenerSessionId)
                c == clearToken(d.tokens, ListenerSessionId)
            IN  /\ sessions' = d.sessions
                /\ tokens' = c.tokens
                /\ csrfStored' = c.csrfStored
       ELSE UNCHANGED <<sessions, tokens, csrfStored>>
  /\ user' = SetState(mounted, user, Null)
  /\ sessionId' = SetState(mounted, sessionId, Null)
  /\ lastEvent' = [lastEvent EXCEPT !.event = "SIGNED_OUT", !.mounted = mounted]
  /\ UNCHANGED <<loading, authPc, subscribed, created, signOutCall, mounted,
                 ssReturn, bracketVars, rlVars, restVars>>

\* The component unmounts.  React runs the cleanup the effect callback
\* returned: the callback of lines 37-81 calls initializeSecurity() and
\* returns nothing (the function that unsubscribes is the value of the
\* promise initializeSecurity returns), so there is no cleanup to run.
EffectCleanup(isSubscribed) == isSubscribed

Unmount ==
  /\ mounted
  /\ mounted' = FALSE
  /\ subscribed' = EffectCleanup(subscribed)
  /\ UNCHANGED <<user, loading, sessionId, sessions, tokens, csrfStored,
                 authPc, created, signOutCall, lastEvent, ssReturn,
                 bracketVars, rlVars, restVars>>

\* signOut() up to its await: the caller holds a pending promise.
SignOutStart ==
  /\ mounted
  /\ signOutCall.pc # "awaiting"
  /\ loading' = TRUE
  /\ IF sessionId # Null
       THEN LET d == invalidateSession(sessions, tokens, sessionId)
                c == clearToken(d.tokens, sessionId)
            IN  /\ sessions' = d.sessions
                /\ tokens' = c.tokens
                /\ csrfStored' = c.csrfStored
       ELSE UNCHANGED <<sessions, tokens, csrfStored>>
  /\ signOutCall' = [NoSignOut EXCEPT !.pc = "awaiting", !.promise = "pending"]
  /\ UNCHANGED <<user, sessionId, authPc, subscribed, created, mounted,
                 lastEvent, ssReturn, bracketVars, rlVars, restVars>>

\* signOut() after supabase.auth.signOut() has resolved { error }: the
\* error is thrown into the catch block, which logs the handled message
\* and returns; finally runs; the async function returns undefined.
SignOutSettle(error) ==
  /\ signOutCall.pc = "awaiting"
  /\ IF error # NoError
       THEN /\ signOutCall' = [pc |-> "settled", promise |-> "fulfilled",
                               error |-> error,
                               logged |-> handle(error).message,
                               reason |-> Null]
            /\ UNCHANGED <<user, sessionId>>
       ELSE /\ signOutCall' = [pc |-> "settled", promise |-> "fulfilled",
                               error |-> error, logged |-> Null,
                               reason |-> Null]
            /\ user' = SetState(mounted, user, Null)
            /\ sessionId' = SetState(mounted, sessionId, Null)
  /\ loading' = SetState(mounted, loading, FALSE)
  /\ UNCHANGED <<sessions, tokens, csrfStored, authPc, subscribed, created,
                 mounted, lastEvent, ssReturn, bracketVars, rlVars, restVars>>

AuthNext ==
  \/ Tick
  \/ \E session \in Users \cup {Null}, profileOk \in BOOLEAN :
       InitializeSecurity(session, profileOk)
  \/ \E session \in Users, profileOk \in BOOLEAN : SignedIn(session, profileOk)
  \/ SignedOut
  \/ Unmount
  \/ SignOutStart
  \/ \E error \in BackendErrors \cup {NoError} : SignOutSettle(error)

AuthSpec == AuthSpecInit /\ [][AuthNext]_vars

(***************************************************************************)
(* The callers of SessionSecurity: one session is created, then validated, *)
(* refreshed and invalidated in any order as the hours pass.               *)
(***************************************************************************)
SessionSpecInit ==
  BracketIdle /\ RateLimiterInit /\ AuthUnmounted /\ RestIdle

QuarterHour == 15 * 60 * 1000

\* Date.now() advances by a quarter of an hour.
SessionTick ==
  /\ now < MaxQuarters * QuarterHour
  /\ now' = now + QuarterHour
  /\ UNCHANGED <<attempts, blockedIPs, rlReturn, rlWindow, bracketVars,
                 authVars, restVars>>

\* What the call found for the session before it ran.
SessionCall(op, id, result) ==
  [op |-> op, sessionId |-> id, existed |-> id \in DOMAIN sessions,
   tooOld |-> id \in DOMAIN sessions
                /\ now - sessions[id].created > 8 * 60 * 60 * 1000,
   tooIdle |-> id \in DOMAIN sessions
                 /\ now - sessions[id].lastActivity > 30 * 60 * 1000,
   result |-> result]

\* SessionSecurity.createSession(userId): each user signs in once.
CallCreateSession ==
  /\ created < Cardinality(Users)
  /\ LET s == createSession(sessions, tokens, created, now)
     IN  /\ sessions' = s.sessions
         /\ tokens' = s.tokens
         /\ csrfStored' = s.csrfStored
         /\ ssReturn' = SessionCall("createSession", s.sessionId,
                                    ValidationResult(FALSE, Null))
  /\ created' = created + 1
  /\ UNCHANGED <<user, loading, sessionId, authPc, subscribed, signOutCall,
                 mounted, lastEvent, bracketVars, rlVars, restVars>>

CallValidateSession(id, currentFingerprint) ==
  /\ LET v == validateSession(sessions, id, now, currentFingerprint)
     IN  /\ sessions' = v.sessions
         /\ ssReturn' = SessionCall("validateSession", id, v.result)
  /\ UNCHANGED <<user, loading, sessionId, tokens, csrfStored, authPc,
                 subscribed, created, signOutCall, mounted, lastEvent,
                 bracketVars, rlVars, restVars>>

CallRefreshActivity(id) ==
  /\ sessions' = refreshActivity(sessions, id, now)
  /\ ssReturn' = SessionCall("refreshActivity", id, ValidationResult(FALSE, Null))
  /\ UNCHANGED <<user, loading, sessionId, tokens, csrfStored, authPc,
                 subscribed, created, signOutCall, mounted, lastEvent,
                 bracketVars, rlVars, restVars>>

CallInvalidateSession(id) ==
  /\ LET d == invalidateSession(sessions, tokens, id)
     IN  /\ sessions' = d.sessions
         /\ tokens' = d.tokens
         /\ csrfStored' = d.csrfStored
  /\ ssReturn' = SessionCall("invalidateSession", id, ValidationResult(FALSE, Null))
  /\ UNCHANGED <<user, loading, sessionId, authPc, subscribed, created,
                 signOutCall, mounted, lastEvent, bracketVars, rlVars, restVars>>

\* The ids the callers hold: the ones generateSessionId can have returned.
SessionIds == { generateSessionId(n) : n \in 0..(Cardinality(Users) - 1) }

SessionNext ==
  \/ SessionTick
  \/ CallCreateSession
  \/ \E id \in SessionIds, fp \in Fingerprints : CallValidateSession(id, fp)
  \/ \E id \in SessionIds : CallRefreshActivity(id)
  \/ \E id \in SessionIds : CallInvalidateSession(id)

SessionSpec == SessionSpecInit /\ [][SessionNext]_vars

(***************************************************************************)
(* The callers of useTournamentStore: fetchTournaments, createTournament,  *)
(* updateTournament and deleteTournament calls that overlap, each          *)
(* succeeding or failing, and the retry timers of fetchTournaments.        *)
(***************************************************************************)
StoreSpecInit ==
  BracketIdle /\ RateLimiterInit /\ AuthUnmounted /\ RestIdle

\* UNCHANGED for the actions of the store
StoreFrame ==
  UNCHANGED <<bracketVars, rlVars, authVars, notifVars, monitorVars, persistVars>>

\* set({ loading: true, error: null })
SetLoading(st) == [st EXCEPT !.loading = TRUE, !.error = NoErrorText]

\* fetchTournaments(filters) up to the await
FetchTournaments(slot) ==
  /\ requests[slot] = NoRequest
  /\ tournamentStore' = SetLoading(tournamentStore)
  /\ requests' = [requests EXCEPT ![slot] = Request("fetchTournaments", 0)]
  /\ UNCHANGED createdCount
  /\ StoreFrame

\* fetchTournaments after tournamentService.getAll resolved
GetAllResolves(slot, tournaments) ==
  /\ requests[slot].op = "fetchTournaments"
  /\ requests[slot].phase = "awaiting"
  /\ tournamentStore' =
       [tournamentStore EXCEPT
          !.tournaments = tournaments,
          !.totalPages = CeilDiv(Len(tournaments), tournamentStore.itemsPerPage),
          !.error = NoErrorText,
          !.loading = FALSE]
  /\ requests' = [requests EXCEPT ![slot] = NoRequest]
  /\ UNCHANGED createdCount
  /\ StoreFrame

\* fetchTournaments after getAll (or the timeout) rejected: the catch
\* block, then finally
GetAllRejects(slot, error) ==
  LET r == requests[slot]
  IN  /\ r.op = "fetchTournaments"
      /\ r.phase = "awaiting"
      /\ IF isRetryable(error, r.retryCount)
           THEN /\ requests' = [requests EXCEPT ![slot] =
                                  [r EXCEPT !.phase = "scheduled",
                                            !.allNetwork = r.allNetwork
                                                            /\ isNetworkError(error)]]
                /\ tournamentStore' = [tournamentStore EXCEPT !.loading = FALSE]
           ELSE /\ requests' = [requests EXCEPT ![slot] = NoRequest]
                /\ tournamentStore' =
                     [tournamentStore EXCEPT
                        !.error = ErrorText("", handle(error).message, r.retryCount),
                        !.tournaments = << >>,
                        !.loading = FALSE]
      /\ UNCHANGED createdCount
      /\ StoreFrame

\* the setTimeout callback: get().fetchTournaments(filters, retryCount + 1)
\* up to its await
RetryFetchTournaments(slot) ==
  LET r == requests[slot]
  IN  /\ r.phase = "scheduled"
      /\ tournamentStore' = SetLoading(tournamentStore)
      /\ requests' = [requests EXCEPT ![slot] =
                        [r EXCEPT !.retryCount = r.retryCount + 1,
                                  !.calls = r.calls + 1,
                                  !.phase = "awaiting"]]
      /\ UNCHANGED createdCount
      /\ StoreFrame

\* createTournament(tournamentData) with no name
CreateTournamentInvalid ==
  /\ tournamentStore' =
       [tournamentStore EXCEPT
          !.error = ErrorText("", "Donnees de tournoi invalides", 0)]
  /\ UNCHANGED <<requests, createdCount>>
  /\ StoreFrame

\* createTournament(tournamentData) up to the await
CreateTournament(slot) ==
  /\ requests[slot] = NoRequest
  /\ tournamentStore' = SetLoading(tournamentStore)
  /\ requests' = [requests EXCEPT ![slot] = Request("createTournament", 0)]
  /\ UNCHANGED createdCount
  /\ StoreFrame

\* createTournament after tournamentService.create resolved with the new
\* tournament
CreateResolves(slot) ==
  /\ requests[slot].op = "createTournament"
  /\ createdCount < MaxCreated
  /\ LET newTournament == MaxFetched + createdCount + 1
         updatedTournaments == <<newTournament>> \o tournamentStore.tournaments
     IN  tournamentStore' =
           [tournamentStore EXCEPT
              !.tournaments = updatedTournaments,
              !.totalPages = CeilDiv(Len(updatedTournaments),
                                     tournamentStore.itemsPerPage),
              !.error = NoErrorText,
              !.loading = FALSE]
  /\ createdCount' = createdCount + 1
  /\ requests' = [requests EXCEPT ![slot] = NoRequest]
  /\ StoreFrame

\* createTournament after create rejected, or resolved with nothing
\* ('Impossible de creer le tournoi' is thrown)
CreateRejects(slot, error) ==
  /\ requests[slot].op = "createTournament"
  /\ tournamentStore' =
       [tournamentStore EXCEPT
          !.error = ErrorText("Erreur lors de la creation: ",
                              handle(error).message, 0),
          !.loading = FALSE]
  /\ requests' = [requests EXCEPT ![slot] = NoRequest]
  /\ UNCHANGED createdCount
  /\ StoreFrame

\* updateTournament(id, updates) and deleteTournament(id) up to the await
UpdateTournament(slot, id) ==
  /\ requests[slot] = NoRequest
  /\ tournamentStore' = SetLoading(tournamentStore)
  /\ requests' = [requests EXCEPT ![slot] = Request("updateTournament", id)]
  /\ UNCHANGED createdCount
  /\ StoreFrame

DeleteTournament(slot, id) ==
  /\ requests[slot] = NoRequest
  /\ tournamentStore' = SetLoading(tournamentStore)
  /\ requests' = [requests EXCEPT ![slot] = Request("deleteTournament", id)]
  /\ UNCHANGED createdCount
  /\ StoreFrame

\* updateTournament after tournamentService.update resolved: the updated
\* tournament (same id) takes the place of the old one
UpdateResolves(slot) ==
  LET id == requests[slot].arg
  IN  /\ requests[slot].op = "updateTournament"
      /\ tournamentStore' =
           [tournamentStore EXCEPT
              !.tournaments = [i \in DOMAIN tournamentStore.tournaments |->
                                 IF tournamentStore.tournaments[i] = id
                                   THEN id ELSE tournamentStore.tournaments[i]],
              !.loading = FALSE]
      /\ requests' = [requests EXCEPT ![slot] = NoRequest]
      /\ UNCHANGED createdCount
      /\ StoreFrame

\* deleteTournament after tournamentService.delete resolved
DeleteResolves(slot) ==
  LET id == requests[slot].arg
  IN  /\ requests[slot].op = "deleteTournament"
      /\ tournamentStore' =
           [tournamentStore EXCEPT
              !.tournaments = FilterOut(tournamentStore.tournaments, id),
              !.totalPages = CeilDiv(Len(tournamentStore.tournaments) - 1,
                                     tournamentStore.itemsPerPage),
              !.loading = FALSE]
      /\ requests' = [requests EXCEPT ![slot] = NoRequest]
      /\ UNCHANGED createdCount
      /\ StoreFrame

\* updateTournament or deleteTournament after the service call rejected
\* (the two catch blocks are the same)
MutationRejects(slot, error) ==
  /\ requests[slot].op \in {"updateTournament", "deleteTournament"}
  /\ tournamentStore' =
       [tournamentStore EXCEPT
          !.error = ErrorText("", handle(error).message, 0),
          !.loading = FALSE]
  /\ requests' = [requests EXCEPT ![slot] = NoRequest]
  /\ UNCHANGED createdCount
  /\ StoreFrame

StoreNext ==
  \/ \E slot \in Slots : FetchTournaments(slot)
  \/ \E slot \in Slots, tournaments \in FetchedLists : GetAllResolves(slot, tournaments)
  \/ \E slot \in Slots, error \in StoreErrors : GetAllRejects(slot, error)
  \/ \E slot \in Slots : RetryFetchTournaments(slot)
  \/ CreateTournamentInvalid
  \/ \E slot \in Slots : CreateTournament(slot)
  \/ \E slot \in Slots : CreateResolves(slot)
  \/ \E slot \in Slots, error \in StoreErrors : CreateRejects(slot, error)
  \/ \E slot \in Slots, id \in TargetIds : UpdateTournament(slot, id)
  \/ \E slot \in Slots, id \in TargetIds : DeleteTournament(slot, id)
  \/ \E slot \in Slots : UpdateResolves(slot)
  \/ \E slot \in Slots : DeleteResolves(slot)
  \/ \E slot \in Slots, error \in StoreErrors : MutationRejects(slot, error)

StoreSpec == StoreSpecInit /\ [][StoreNext]_vars

(***************************************************************************)
(* The callers of SecurityMonitor: logEvent one by one and in one burst    *)
(* (a flood of failed logins), getRecentEvents and                         *)
(* detectSuspiciousActivity, as time passes.                               *)
(***************************************************************************)
MonitorSpecInit ==
  BracketIdle /\ RateLimiterInit /\ AuthUnmounted /\ RestIdle

MonitorFrame ==
  UNCHANGED <<bracketVars, authVars, storeVars, notifVars, persistVars,
              attempts, blockedIPs, rlReturn, rlWindow>>

\* Date.now() advances by one second.
MonitorTick ==
  /\ now < MaxMonitorTime * 1000
  /\ now' = now + 1000
  /\ UNCHANGED monitorVars
  /\ MonitorFrame

\* securityHelpers.logRateLimitViolation(action, userId)
LogEvent(userId) ==
  /\ singles < MaxSingles
  /\ LET r == logEvent(events, metrics, logged, "RATE_LIMIT_EXCEEDED",
                       "medium", userId, now)
     IN  /\ events' = r.events
         /\ metrics' = r.metrics
         /\ logged' = r.logged
  /\ singles' = singles + 1
  /\ UNCHANGED now
  /\ MonitorFrame

\* securityHelpers.logAuthAttempt(false, userId) maxEvents - 2 times in a
\* row: with the events logged one by one, more than maxEvents events.
LogBurst(userId) ==
  /\ logged = singles
  /\ LET r == logEvents(events, metrics, logged, "MULTIPLE_FAILED_LOGINS",
                        "medium", userId, now, maxEvents - 2)
     IN  /\ events' = r.events
         /\ metrics' = r.metrics
         /\ logged' = r.logged
  /\ UNCHANGED <<now, singles>>
  /\ MonitorFrame

CallGetRecentEvents(limit, severity, type) ==
  /\ events' = getRecentEvents(events, limit, severity, type).events
  /\ UNCHANGED <<now, metrics, logged, singles>>
  /\ MonitorFrame

CallDetectSuspiciousActivity(userId, ip) ==
  /\ singles < MaxSingles
  /\ LET r == detectSuspiciousActivity(events, metrics, logged, userId, ip, now)
     IN  /\ events' = r.events
         /\ metrics' = r.metrics
         /\ logged' = r.logged
         /\ singles' = singles + (r.logged - logged)
  /\ UNCHANGED now
  /\ MonitorFrame

MonitorNext ==
  \/ MonitorTick
  \/ \E userId \in Users : LogEvent(userId)
  \/ \E userId \in Users : LogBurst(userId)
  \/ \E severity \in {Omitted, "medium"} : CallGetRecentEvents(50, severity, Omitted)
  \/ \E userId \in {Omitted} \cup Users, ip \in {Omitted, "client-side"} :
       CallDetectSuspiciousActivity(userId, ip)

MonitorSpec == MonitorSpecInit /\ [][MonitorNext]_vars

(***************************************************************************)
(* The callers of useNotificationStore.                                    *)
(***************************************************************************)
NotifSpecInit ==
  BracketIdle /\ RateLimiterInit /\ AuthUnmounted /\ RestIdle

NotifFrame ==
  UNCHANGED <<bracketVars, rlVars, authVars, storeVars, monitorVars, persistVars>>

\* fetchNotifications(userId) up to the await
FetchNotifications(userId) ==
  /\ userId \notin notifPending
  /\ notificationStore' = [notificationStore EXCEPT !.loading = TRUE,
                                                    !.error = Null]
  /\ notifPending' = notifPending \cup {userId}
  /\ NotifFrame

\* fetchNotifications after getUserNotifications resolved
FetchNotificationsResolves(userId, notifications) ==
  /\ userId \in notifPending
  /\ notificationStore' =
       [fetchNotificationsSet(notificationStore, notifications)
          EXCEPT !.loading = FALSE]
  /\ notifPending' = notifPending \ {userId}
  /\ NotifFrame

\* fetchNotifications after getUserNotifications rejected
FetchNotificationsRejects(userId, error) ==
  /\ userId \in notifPending
  /\ notificationStore' = [notificationStore EXCEPT
                             !.error = handle(error).message,
                             !.loading = FALSE]
  /\ notifPending' = notifPending \ {userId}
  /\ NotifFrame

\* markAsRead(notificationId) after notificationService.markAsRead resolved
MarkAsRead(id) ==
  /\ notificationStore' = markAsReadSet(notificationStore, id)
  /\ UNCHANGED notifPending
  /\ NotifFrame

\* markAllAsRead(userId) after notificationService.markAllAsRead resolved
MarkAllAsRead ==
  /\ notificationStore' = markAllAsReadSet(notificationStore)
  /\ UNCHANGED notifPending
  /\ NotifFrame

\* markAsRead or markAllAsRead after the service call rejected
MarkRejects(error) ==
  /\ notificationStore' = [notificationStore EXCEPT
                             !.error = handle(error).message]
  /\ UNCHANGED notifPending
  /\ NotifFrame

AddNotification(notification) ==
  /\ Len(notificationStore.notifications) < MaxNotifications
  /\ notificationStore.unreadCount < MaxNotifications
  /\ notificationStore' = addNotification(notificationStore, notification)
  /\ UNCHANGED notifPending
  /\ NotifFrame

RemoveNotification(id) ==
  /\ notificationStore.unreadCount > -MaxNotifications
  /\ notificationStore' = removeNotification(notificationStore, id)
  /\ UNCHANGED notifPending
  /\ NotifFrame

NotifNext ==
  \/ \E userId \in Users : FetchNotifications(userId)
  \/ \E userId \in Users, notifications \in FetchedNotifications :
       FetchNotificationsResolves(userId, notifications)
  \/ \E userId \in Users, error \in StoreErrors :
       FetchNotificationsRejects(userId, error)
  \/ \E id \in NotificationIds : MarkAsRead(id)
  \/ MarkAllAsRead
  \/ \E error \in StoreErrors : MarkRejects(error)
  \/ \E id \in NotificationIds, read \in BOOLEAN :
       AddNotification(Notification(id, read))
  \/ \E id \in NotificationIds : RemoveNotification(id)

NotifSpec == NotifSpecInit /\ [][NotifNext]_vars

(***************************************************************************)
(* A caller of matchService.createMatches: the participants of the         *)
(* tournament are handed to createMatches, whose inserts are awaited one   *)
(* by one, while the bracket of the same participants is generated.        *)
(***************************************************************************)
PersistSpecInit ==
  /\ participants \in Inputs
  /\ format = "fixtures"
  /\ bracket = <<>>
  /\ groups = <<>>
  /\ step = 2
  /\ RateLimiterInit
  /\ AuthUnmounted
  /\ RestIdle

PersistFrame ==
  UNCHANGED <<bracketVars, rlVars, authVars, storeVars, notifVars, monitorVars>>

\* createMatches(tournamentId, participants) up to its first await; with
\* rounds = 0 no insert is made and the call returns [].
CreateMatches ==
  /\ createMatchesCall = "none"
  /\ createMatchesCall' = IF createMatches(participants) = << >>
                            THEN "resolved" ELSE "pending"
  /\ UNCHANGED matchRows
  /\ PersistFrame

\* An insert resolves without error: the row is in the table, matches.push,
\* and the loops go on; after the last insert the call returns matches.
InsertResolves ==
  /\ createMatchesCall = "pending"
  /\ matchRows' = Append(matchRows, createMatches(participants)[Len(matchRows) + 1])
  /\ createMatchesCall' = IF Len(matchRows') = Len(createMatches(participants))
                            THEN "resolved" ELSE "pending"
  /\ PersistFrame

\* An insert resolves with an error: if (error) throw error; the rows
\* inserted before stay in the table.
InsertRejects ==
  /\ createMatchesCall = "pending"
  /\ createMatchesCall' = "rejected"
  /\ UNCHANGED matchRows
  /\ PersistFrame

PersistNext ==
  \/ GenerateFixtures
  \/ CreateMatches
  \/ InsertResolves
  \/ InsertRejects

PersistSpec == PersistSpecInit /\ [][PersistNext]_vars

(***************************************************************************)
(* Vocabulary of the properties.                                           *)
(***************************************************************************)
N == Len(participants)
FixturesDone == step = 3 /\ format = "fixtures"
GroupsDone == step = 3 /\ format = "group_stage"

\* The smallest power of two >= n, and its base-2 logarithm, by definition.
PowersOf2 == { 2 ^ k : k \in 0..10 }
SmallestPowerOf2(n) ==
  CHOOSE p \in PowersOf2 : p >= n /\ \A q \in PowersOf2 : q >= n => p <= q
Log2(p) == CHOOSE k \in 0..10 : 2 ^ k = p

IsSet(x) == x # Undefined
\* A match with two participants, and a resolved bye.
TwoParticipants(m) == IsSet(m.participant1) /\ IsSet(m.participant2)
IsBye(m) ==
  IsSet(m.participant1) /\ ~IsSet(m.participant2) /\ m.winner = m.participant1
IsPlaceholder(m) ==
  ~IsSet(m.participant1) /\ ~IsSet(m.participant2) /\ ~IsSet(m.winner)

InRound(ms, r) == { i \in DOMAIN ms : ms[i].round = r }
Contested(ms) == { i \in InRound(ms, 1) : TwoParticipants(ms[i]) }
Byes(ms) == { i \in InRound(ms, 1) : IsBye(ms[i]) }
Rounds(ms) == { ms[i].round : i \in DOMAIN ms }
DistinctSeeds ==
  \A i, j \in DOMAIN participants :
    i # j => participants[i].seed # participants[j].seed
SortedInput ==
  \A i, j \in DOMAIN participants :
    i < j => participants[i].seed <= participants[j].seed

\* C1 as stated: for every N >= 1, 2 x (round-1 matches with two
\* participants) + (round-1 bye matches) is the smallest power of two >= N.
\* Every round-1 match with participant1 alone counts as a bye match here,
\* resolved or not.
C1_SlotsArePowerOfTwo ==
  (FixturesDone /\ N >= 1) =>
    2 * Cardinality(Contested(bracket))
      + Cardinality(InRound(bracket, 1) \ Contested(bracket))
      = SmallestPowerOf2(N)

\* C1 amended: for every N >= 2 each round-1 match is a two-participant
\* match or a bye match and 2 x (their number) is the smallest power of two
\* >= N, a bye match filling both slots of its pairing, while 2 x
\* two-participant matches + bye matches is N; for N = 1 round 1 holds one
\* match.
C1_RoundOneFillsPowerOfTwo ==
  (FixturesDone /\ N >= 1) =>
    IF N = 1 THEN Cardinality(InRound(bracket, 1)) = 1
    ELSE /\ InRound(bracket, 1) = Contested(bracket) \cup Byes(bracket)
         /\ 2 * (Cardinality(Contested(bracket)) + Cardinality(Byes(bracket)))
              = SmallestPowerOf2(N)
         /\ 2 * Cardinality(Contested(bracket)) + Cardinality(Byes(bracket)) = N

C1_Witness ==
  /\ FixturesDone
  /\ N = 6
  /\ Cardinality(Contested(bracket)) = 2
  /\ Cardinality(Byes(bracket)) = 2

\* C2: with distinct seeds, the participants of the bye matches are exactly
\* the P - N participants with the lowest seeds, whatever the input order.
C2_ByesGoToLowestSeeds ==
  (FixturesDone /\ N >= 1 /\ DistinctSeeds) =>
    { bracket[i].participant1 : i \in Byes(bracket) }
      = { participants[i] : i \in
            { i \in DOMAIN participants :
                Cardinality({ j \in DOMAIN participants :
                                participants[j].seed < participants[i].seed })
                  < SmallestPowerOf2(N) - N } }

C2_Witness ==
  /\ FixturesDone
  /\ DistinctSeeds
  /\ ~SortedInput
  /\ SmallestPowerOf2(N) - N >= 2
  /\ Cardinality(Byes(bracket)) >= 2

\* C3 as stated: for every N >= 1 the number of distinct round values is
\* ceil(log2(P)), P the smallest power of two >= N.
C3_RoundCountIsLog2 ==
  (FixturesDone /\ N >= 1) =>
    Cardinality(Rounds(bracket)) = Log2(SmallestPowerOf2(N))

\* C3 amended: for every N >= 2 the number of distinct round values is
\* log2(P); for N = 1 (P = 1) the bracket has one round.
C3_RoundCountIsLog2AtLeastOne ==
  (FixturesDone /\ N >= 1) =>
    Cardinality(Rounds(bracket)) =
      IF N = 1 THEN 1 ELSE Log2(SmallestPowerOf2(N))

C3_Witness ==
  /\ FixturesDone
  /\ N = 9
  /\ Cardinality(Rounds(bracket)) = 4

\* C4 as stated: for N = 1 the result is one match with round 1,
\* matchNumber 1, participant1 the participant, no participant2 and winner
\* the participant.
C4_SingleParticipantGetsBye ==
  (FixturesDone /\ N = 1) =>
    /\ Len(bracket) = 1
    /\ bracket[1].round = 1
    /\ bracket[1].matchNumber = 1
    /\ bracket[1].participant1 = participants[1]
    /\ ~IsSet(bracket[1].participant2)
    /\ bracket[1].winner = participants[1]

\* C5: in a generated bracket (the fixtures bracket or the knockout bracket
\* of the group stage) no two matches share (round, matchNumber).
C5_RoundMatchNumberUnique ==
  step = 3 =>
    \A i, j \in DOMAIN bracket :
      i # j => <<bracket[i].round, bracket[i].matchNumber>>
                 # <<bracket[j].round, bracket[j].matchNumber>>

C5_Witness ==
  /\ FixturesDone
  /\ Cardinality(Contested(bracket)) >= 2
  /\ Cardinality(Byes(bracket)) >= 2
  /\ Cardinality(Rounds(bracket)) >= 3

\* C6: for N >= 2 the participants without a bye are paired in ascending
\* seed order: the two-participant matches have round 1, matchNumber
\* 1, 2, ... in pairing order, no winner, and together hold each
\* participant without a bye once.
ContestedInOrder ==
  [k \in 1..Cardinality(Contested(bracket)) |->
     bracket[CHOOSE i \in Contested(bracket) :
               Cardinality({ j \in Contested(bracket) : j < i }) = k - 1]]

C6_ContestedPairedBySeed ==
  (FixturesDone /\ N >= 2) =>
    LET cs == ContestedInOrder
        byeIds == { bracket[i].participant1.id : i \in Byes(bracket) }
        ids == { participants[i].id : i \in DOMAIN participants }
        paired == { cs[k].participant1.id : k \in DOMAIN cs }
                    \cup { cs[k].participant2.id : k \in DOMAIN cs }
    IN  /\ \A k \in DOMAIN cs :
             /\ cs[k].round = 1
             /\ cs[k].matchNumber = k
             /\ ~IsSet(cs[k].winner)
             /\ cs[k].participant1.seed <= cs[k].participant2.seed
             /\ k > 1 => cs[k - 1].participant2.seed <= cs[k].participant1.seed
             /\ cs[k].participant1 \in { participants[i] : i \in DOMAIN participants }
             /\ cs[k].participant2 \in { participants[i] : i \in DOMAIN participants }
        /\ paired = ids \ byeIds
        /\ Cardinality(paired) = 2 * Len(cs)

C6_Witness ==
  /\ FixturesDone
  /\ DistinctSeeds
  /\ ~SortedInput
  /\ Cardinality(Contested(bracket)) >= 3
  /\ Cardinality(Byes(bracket)) >= 1

\* C7: for N >= 1 the rounds are numbered 1..R without gaps, round r + 1
\* holds ceil(count(r) / 2) matches, round R holds one match, and every
\* match of a round >= 2 has no participant and no winner.
C7_RoundsHalveToFinal ==
  (FixturesDone /\ N >= 1) =>
    LET R == Cardinality(Rounds(bracket))
        count(r) == Cardinality(InRound(bracket, r))
    IN  /\ Rounds(bracket) = 1..R
        /\ \A r \in 1..(R - 1) :
             \E h \in 0..Len(bracket) :
               /\ count(r + 1) = h
               /\ 2 * h >= count(r)
               /\ 2 * h <= count(r) + 1
        /\ count(R) = 1
        /\ \A i \in DOMAIN bracket :
             bracket[i].round >= 2 => IsPlaceholder(bracket[i])

C7_Witness ==
  /\ FixturesDone
  /\ N = 11
  /\ Cardinality(InRound(bracket, 1)) = 8
  /\ Cardinality(InRound(bracket, 2)) = 4
  /\ Cardinality(InRound(bracket, 4)) = 1

\* C8: for N >= 1 every participant is in exactly one group, the one at
\* input index i in group i mod groupCount, and the group sizes differ by
\* at most 1.
Occurrences(i) ==
  { <<g, k>> \in (DOMAIN groups) \X (1..N) :
      k \in DOMAIN groups[g].participants
        /\ groups[g].participants[k] = participants[i] }

C8_GroupsPartitionByIndex ==
  (GroupsDone /\ N >= 1) =>
    /\ \A i \in DOMAIN participants :
         /\ Cardinality(Occurrences(i)) = 1
         /\ \A o \in Occurrences(i) : o[1] - 1 = (i - 1) % Len(groups)
    /\ \A g, h \in DOMAIN groups :
         Len(groups[g].participants) - Len(groups[h].participants) <= 1

C8_Witness ==
  /\ GroupsDone
  /\ Len(groups) = 3
  /\ N = 13
  /\ Len(groups[1].participants) = 5
  /\ Len(groups[3].participants) = 4

C10_RoundRobinComplete ==
  GroupsDone =>
    \A g \in DOMAIN groups :
      LET ps == groups[g].participants
          ms == groups[g].matches
          k == Len(ps)
          members == { ps[i] : i \in DOMAIN ps }
      IN  /\ 2 * Len(ms) = k * (k - 1)
          /\ \A a, b \in members :
               a # b => Cardinality({ m \in DOMAIN ms :
                          {ms[m].participant1, ms[m].participant2} = {a, b} }) = 1
          /\ \A m \in DOMAIN ms :
               /\ ms[m].participant1 # ms[m].participant2
               /\ ms[m].participant1 \in members
               /\ ms[m].participant2 \in members
               /\ ms[m].round = 1
          /\ { ms[m].matchNumber : m \in DOMAIN ms } = 1..Len(ms)

C10_Witness ==
  /\ GroupsDone
  /\ Len(groups) = 2
  /\ Len(groups[1].participants) = 5
  /\ Len(groups[1].matches) = 10
  /\ Len(groups[2].matches) = 6

\* C11: the knockout bracket is sized for totalQualifiers = 2 x groupCount:
\* round 1 has floor(totalQualifiers / 2) matches, each later round
\* ceil(previous / 2) until a round with one match, and no knockout match
\* has a participant or a winner.
C11_KnockoutSizedForQualifiers ==
  GroupsDone =>
    LET R == Cardinality(Rounds(bracket))
        count(r) == Cardinality(InRound(bracket, r))
        totalQualifiers == 2 * Len(groups)
    IN  /\ Rounds(bracket) = 1..R
        /\ \E h \in 0..Len(bracket) :
             /\ count(1) = h
             /\ 2 * h <= totalQualifiers
             /\ 2 * h + 1 >= totalQualifiers
        /\ \A r \in 1..(R - 1) :
             \E h \in 0..Len(bracket) :
               /\ count(r + 1) = h
               /\ 2 * h >= count(r)
               /\ 2 * h <= count(r) + 1
        /\ count(R) = 1
        /\ \A i \in DOMAIN bracket : IsPlaceholder(bracket[i])

C11_Witness ==
  /\ GroupsDone
  /\ Len(groups) = 3
  /\ Cardinality(InRound(bracket, 1)) = 3
  /\ Cardinality(InRound(bracket, 2)) = 2
  /\ Cardinality(InRound(bracket, 3)) = 1

\* generateFixturesBracket applied to totalQualifiers = 2 x groupCount
\* participants.
FixturesForQualifiers ==
  generateFixturesBracket(
    [i \in 1..(2 * Len(groups)) |-> Participant(i, i, i)])

SameRoundSizes(a, b) ==
  \A r \in Rounds(a) \cup Rounds(b) :
    Cardinality(InRound(a, r)) = Cardinality(InRound(b, r))

\* C12 as stated: for every N, each round of knockoutBracket has as many
\* matches as the same round of generateFixturesBracket applied to
\* totalQualifiers participants.
C12_KnockoutSizedLikeFixtures ==
  GroupsDone => SameRoundSizes(bracket, FixturesForQualifiers)

\* C12 amended: the round sizes are equal when groupCount is 1, 2 or 4
\* (totalQualifiers a power of two); for groupCount = 3 knockoutBracket has
\* 3, 2, 1 matches per round and generateFixturesBracket on 6 participants
\* has 4, 2, 1.
RoundSizes(ms) ==
  [r \in 1..Cardinality(Rounds(ms)) |-> Cardinality(InRound(ms, r))]

C12_KnockoutSizedLikeFixturesForPowerOfTwo ==
  GroupsDone =>
    IF Len(groups) = 3
      THEN /\ RoundSizes(bracket) = <<3, 2, 1>>
           /\ RoundSizes(FixturesForQualifiers) = <<4, 2, 1>>
      ELSE SameRoundSizes(bracket, FixturesForQualifiers)

C12_Witness ==
  /\ GroupsDone
  /\ Len(groups) = 4
  /\ RoundSizes(bracket) = <<4, 2, 1>>
  /\ RoundSizes(FixturesForQualifiers) = <<4, 2, 1>>

AllGroupStageMatches ==
  { <<"knockout", i>> : i \in DOMAIN bracket }
    \cup UNION { { <<groups[g].name, i>> : i \in DOMAIN groups[g].matches }
                 : g \in DOMAIN groups }

MatchAt(k) ==
  IF k[1] = "knockout" THEN bracket[k[2]]
  ELSE groups[CHOOSE g \in DOMAIN groups : groups[g].name = k[1]].matches[k[2]]

C15_GroupStageKeysUnique ==
  GroupsDone =>
    \A k1, k2 \in AllGroupStageMatches :
      k1 # k2 => <<MatchAt(k1).round, MatchAt(k1).matchNumber>>
                   # <<MatchAt(k2).round, MatchAt(k2).matchNumber>>

(***************************************************************************)
(* Properties of RateLimiter, under RateLimiterSpec.                       *)
(***************************************************************************)
LastIsAllowed == rlReturn.op = "isAllowed"
\* Every isAllowed call of the key's current window used the same maxAttempts.
SameMaxAttempts(k) == rlWindow[k].maxUsed >= 1

\* C16 as stated: from no recorded attempts, the first maxAttempts calls
\* of isAllowed(key, maxAttempts, windowMs) inside the window all return
\* allowed = true, back-to-back calls included.
C16_FirstCallsAllowed ==
  (/\ LastIsAllowed
   /\ SameMaxAttempts(rlReturn.key)
   /\ rlWindow[rlReturn.key].calls <= rlReturn.maxAttempts
   /\ now <= attempts[rlReturn.key].resetTime)
    => rlReturn.result.allowed

\* C17: for a key always checked with the same maxAttempts, at most
\* maxAttempts calls are allowed within one window: a call made when
\* maxAttempts calls of the window were allowed is denied.
C17_AtMostMaxAttemptsAllowed ==
  \A k \in Keys :
    SameMaxAttempts(k) => rlWindow[k].allowed <= rlWindow[k].maxUsed

C17_Witness ==
  /\ LastIsAllowed
  /\ SameMaxAttempts(rlReturn.key)
  /\ rlWindow[rlReturn.key].allowed = 2
  /\ rlWindow[rlReturn.key].maxUsed = 2
  /\ rlWindow[rlReturn.key].calls >= 3
  /\ ~rlReturn.result.allowed
  /\ now - attempts[rlReturn.key].lastAttempt >= 2000
  /\ now <= attempts[rlReturn.key].resetTime

\* What C18 promises of a call: allowed, maxAttempts - 1 attempts left, a
\* new window with attempt count 1.
OpensNewWindow ==
  /\ rlReturn.result.allowed
  /\ rlReturn.result.remainingAttempts = rlReturn.maxAttempts - 1
  /\ attempts[rlReturn.key].count = 1
  /\ attempts[rlReturn.key].lastAttempt = now
  /\ attempts[rlReturn.key].resetTime = now + rlReturn.windowMs
  /\ rlReturn.result.resetTime = now + rlReturn.windowMs

C19_ResetClearsKey ==
  [][(now' = now /\ rlReturn'.op = "reset")
       => LET key == rlReturn'.key
          IN  /\ getAttemptCount(attempts', key) = 0
              /\ ~isBlocked(blockedIPs', key)
              /\ \A m \in 1..MaxAttemptsArg, w \in WindowChoices :
                   isAllowed(attempts', blockedIPs', key, m, w, now').result.allowed
              /\ \A k \in Keys \ {key} :
                   /\ attempts'[k] = attempts[k]
                   /\ isBlocked(blockedIPs', k) = isBlocked(blockedIPs, k)]_vars

C19_Witness ==
  /\ rlReturn.op = "reset"
  /\ rlReturn.after = "blocked"
  /\ getAttemptCount(attempts, rlReturn.key) = 0
  /\ \E k \in Keys \ {rlReturn.key} : getAttemptCount(attempts, k) = 2

(***************************************************************************)
(* Properties of useAuthProvider, under AuthSpec.                          *)
(***************************************************************************)
SignOutFailed == signOutCall.pc = "settled" /\ signOutCall.error # NoError

\* C20: when the backend sign-out call returns an error, the promise
\* returned by signOut rejects with that error's message.
C20_SignOutErrorRejects ==
  SignOutFailed =>
    /\ signOutCall.promise = "rejected"
    /\ signOutCall.reason = signOutCall.error.message

\* C21: unmounting the component unsubscribes the auth state-change
\* subscription created during initialization, so no auth event is
\* delivered to the hook after unmount.
C21_UnmountUnsubscribes ==
  /\ (authPc = "ready" /\ ~mounted) => ~subscribed
  /\ lastEvent.mounted

\* C22: once the listener has received SIGNED_OUT after a SIGNED_IN event
\* created a session, validateSession returns valid = false for that
\* session and its CSRF token no longer validates.
C22_SignedOutInvalidatesSession ==
  (lastEvent.event = "SIGNED_OUT" /\ lastEvent.sessionId # Null) =>
    LET id == lastEvent.sessionId
    IN  /\ ~validateSession(sessions, id, now, "fingerprint").result.valid
        /\ ~validateToken(tokens, id, id, now).valid

(***************************************************************************)
(* Properties of SessionSecurity, under SessionSpec.                       *)
(***************************************************************************)
LastValidated == ssReturn.op = "validateSession"

\* C24: validateSession returns valid = true only if the session exists,
\* was created at most 8 hours ago and had activity at most 30 minutes
\* ago (activity refreshes never carry a session beyond 8 hours); a
\* validation that fails for expiry or inactivity removes the session;
\* a session that is gone stays gone, and validating it returns 'invalid'.
C24_SessionValidOnlyWhileFresh ==
  [][/\ (LastValidated' /\ ssReturn'.result.valid) =>
          /\ ssReturn'.existed
          /\ ~ssReturn'.tooOld
          /\ ~ssReturn'.tooIdle
          /\ ssReturn'.sessionId \in DOMAIN sessions'
     /\ (LastValidated' /\ ssReturn'.result.reason \in {"expired", "inactive"}) =>
          ssReturn'.sessionId \notin DOMAIN sessions'
     /\ (LastValidated' /\ ~ssReturn'.existed) =>
          ssReturn'.result = ValidationResult(FALSE, "invalid")
     /\ \A n \in 0..(created - 1) :
          generateSessionId(n) \notin DOMAIN sessions =>
            generateSessionId(n) \notin DOMAIN sessions'
    ]_vars

\* A session refreshed all along is validated exactly 8 hours after its
\* creation and is still valid.
C24_Witness ==
  /\ LastValidated
  /\ ssReturn.result.valid
  /\ ssReturn.sessionId \in DOMAIN sessions
  /\ sessions[ssReturn.sessionId].lastActivity = now
  /\ now - sessions[ssReturn.sessionId].created = MAX_SESSION_DURATION

(***************************************************************************)
(* Properties of useTournamentStore, under StoreSpec.                      *)
(***************************************************************************)
\* What the store shows for a network error.
NetworkMessage == handle([message |-> "Failed to fetch", code |-> Null]).message

\* The invocation of fetchTournaments in the slot ends in this step.
FetchEnds(slot) ==
  /\ requests[slot].op = "fetchTournaments"
  /\ requests[slot].phase = "awaiting"
  /\ requests'[slot] = NoRequest

\* C23: an invocation of fetchTournaments whose getAll calls all fail with
\* a network error calls getAll at most 1 + MAX_RETRIES = 4 times and then
\* ends with the error set (after 3 retries), tournaments empty and
\* loading false; a non-network error is never retried.
C23_FetchRetriesAreBounded ==
  [][\A slot \in Slots :
       /\ requests'[slot].calls <= 1 + MAX_RETRIES
       /\ requests'[slot].phase = "scheduled" => requests'[slot].allNetwork
       /\ ( /\ FetchEnds(slot)
            /\ requests[slot].allNetwork
            /\ tournamentStore'.error # NoErrorText
            /\ tournamentStore'.error.message = NetworkMessage ) =>
              /\ requests[slot].calls = 1 + MAX_RETRIES
              /\ tournamentStore'.error.retries = MAX_RETRIES
              /\ tournamentStore'.tournaments = << >>
              /\ ~tournamentStore'.loading
    ]_vars

\* An invocation has ended after its fourth network failure.
C23_Witness ==
  /\ tournamentStore.error # NoErrorText
  /\ tournamentStore.error.message = NetworkMessage
  /\ tournamentStore.error.retries = MAX_RETRIES
  /\ tournamentStore.tournaments = << >>
  /\ ~tournamentStore.loading

NoRequestPending == \A slot \in Slots : requests[slot] = NoRequest

\* C27: once the fetchTournaments, createTournament and deleteTournament
\* calls made so far have all completed, totalPages equals
\* ceil(tournaments.length / itemsPerPage).
C27_TotalPagesMatchesList ==
  (NoRequestPending /\ tournamentStore # InitialStore) =>
    tournamentStore.totalPages =
      CeilDiv(Len(tournamentStore.tournaments), tournamentStore.itemsPerPage)

\* C28: loading is true whenever a request has started and not yet
\* settled (a scheduled retry included), and false once all have settled.
C28_LoadingTracksRequests ==
  tournamentStore.loading = (\E slot \in Slots : requests[slot] # NoRequest)

(***************************************************************************)
(* Properties of SecurityMonitor, under MonitorSpec.                       *)
(***************************************************************************)
StoredIds(evts) == { evts[i].id : i \in DOMAIN evts }

\* C25: the stored event list holds at most 1000 events and, when more
\* than 1000 were logged, exactly the 1000 most recently logged ones; a
\* call that logs nothing (getRecentEvents) leaves the list, and so the
\* events dropped next, as they were.
C25_KeepsLastThousand ==
  [][/\ Len(events') <= 1000
     /\ logged' > 1000 => StoredIds(events') = (logged' - 999)..logged'
     /\ logged' = logged => events' = events
    ]_vars

(***************************************************************************)
(* Properties of useNotificationStore, under NotifSpec.                    *)
(***************************************************************************)
\* C26: unreadCount equals the number of stored notifications with
\* read = false and is never negative.
C26_UnreadCountMatchesList ==
  /\ notificationStore.unreadCount = Unread(notificationStore.notifications)
  /\ notificationStore.unreadCount >= 0

\* C29: while every isAllowed call of a key's window used the same
\* maxAttempts, the stored count of the key never exceeds that maxAttempts
\* and the key is not in the blocked set (isBlocked(key) is false); and a
\* call that returns allowed = false leaves the key's entry (count,
\* lastAttempt, resetTime) as it was.
C29_CountWithinLimit ==
  \A k \in Keys :
    SameMaxAttempts(k) => /\ getAttemptCount(attempts, k) <= rlWindow[k].maxUsed
                          /\ ~isBlocked(blockedIPs, k)
C29_DeniedLeavesEntry ==
  (now' = now /\ rlReturn'.op = "isAllowed" /\ ~rlReturn'.result.allowed)
    => attempts'[rlReturn'.key] = attempts[rlReturn'.key]
C29_SameMaxAttemptsNeverBlocked ==
  []C29_CountWithinLimit /\ [][C29_DeniedLeavesEntry]_vars
\* A call denied at the limit (not by the progressive delay) after the count
\* reached the one maxAttempts the key's window has seen.
C29_Witness ==
  /\ LastIsAllowed
  /\ ~rlReturn.result.allowed
  /\ rlReturn.result.requiresCaptcha
  /\ SameMaxAttempts(rlReturn.key)
  /\ rlWindow[rlReturn.key].maxUsed = 2
  /\ attempts[rlReturn.key].count = 2
  /\ rlWindow[rlReturn.key].calls >= 3
  /\ ~isBlocked(blockedIPs, rlReturn.key)

\* The (round, match_number) pairs of the rows of the matches table, and the
\* (round, matchNumber) pairs of the matches of a bracket.
PersistedPairs == { <<matchRows[i].round, matchRows[i].match_number>> :
                      i \in 1..Len(matchRows) }
GeneratedPairs == { <<bracket[i].round, bracket[i].matchNumber>> :
                      i \in 1..Len(bracket) }
\* C30 as stated: for N >= 1 participants, once createMatches has returned
\* and the bracket of the same participants is generated, the table holds
\* exactly the (round, match_number) pairs of the bracket, one row each.
C30_PersistedLikeGenerated ==
  (createMatchesCall = "resolved" /\ step = 3 /\ Len(participants) >= 1)
    => /\ PersistedPairs = GeneratedPairs
       /\ Len(matchRows) = Len(bracket)

====
